---- MODULE Spec2Model ----
(***************************************************************************)
(* A model of the Talia chess engine: the Board with its reversible        *)
(* move_piece / unmake_move, the MoveGenerator (pseudo-legal generation,   *)
(* legality filter, is_in_check, castling attack map) and the search       *)
(* (negamax with alpha-beta, quiescence, iterative deepening).             *)
(***************************************************************************)
EXTENDS Integers, Sequences, FiniteSets, TLC

VARIABLES
    board,      \* MoveGenerator.board : the Board being mutated in place
    made,       \* the caller's moves that were made and not yet undone
    entry,      \* for every move of `made`, the Board just before it was made
    last,       \* the outcome of the most recent operation
    fbm,        \* the frame of a running find_best_move (its locals)
    bot,        \* the UCI loop: its last input, what it printed and logged
    perft       \* the frames of a running perft_test, the innermost last

vars == <<board, made, entry, last, fbm, bot, perft>>

-----------------------------------------------------------------------------
(* Primitives: piece.rs, square indices                                    *)

None == "None"
White == "White"
Black == "Black"
Pawn == "Pawn"
Knight == "Knight"
Bishop == "Bishop"
Rook == "Rook"
Queen == "Queen"
King == "King"

Squares == 0..63

A1 == 0
B1 == 1
C1 == 2
D1 == 3
E1 == 4
F1 == 5
G1 == 6
H1 == 7
A8 == 56
B8 == 57
C8 == 58
D8 == 59
E8 == 60
F8 == 61
G8 == 62
H8 == 63

INF == 2147483647

opposite_color(c) == IF c = White THEN Black ELSE White

is_sliding_piece(p) == p \in {Queen, Rook, Bishop}

piece_value(p) ==
    CASE p = Pawn -> 100
      [] p = Knight -> 300
      [] p = Bishop -> 300
      [] p = Rook -> 500
      [] p = Queen -> 900
      [] p = King -> 0

-----------------------------------------------------------------------------
(* Board and BoardState: board.rs                                          *)
(* An Option<usize> is the empty sequence (None) or <<s>> (Some(s)).       *)

BoardStateDefault ==
    [ captured_piece |-> None,
      en_passant_square |-> <<>>,
      half_move_clock |-> 0,
      white_kingside_castling_priviledge |-> FALSE,
      black_kingside_castling_priviledge |-> FALSE,
      white_queenside_castling_priviledge |-> FALSE,
      black_queenside_castling_priviledge |-> FALSE ]

BoardDefault ==
    [ squares |-> [s \in Squares |-> None],
      colors |-> [s \in Squares |-> None],
      to_move |-> White,
      full_move_number |-> 1,
      board_state |-> BoardStateDefault,
      board_state_history |-> <<>> ]

put_piece(b, square, piece, color) ==
    [b EXCEPT !.squares[square] = piece, !.colors[square] = color]

is_piece_at_square(b, index, piece, color) ==
    b.squares[index] = piece /\ b.colors[index] = color

is_square_empty(b, index) ==
    b.squares[index] = None /\ b.colors[index] = None

\* Move and Flag: move_generation.rs
NoFlag == [tag |-> "None", captured |-> None, promotion |-> None]
KingsideCastle == [tag |-> "KingsideCastle", captured |-> None, promotion |-> None]
QueensideCastle == [tag |-> "QueensideCastle", captured |-> None, promotion |-> None]
PawnDoublePush == [tag |-> "PawnDoublePush", captured |-> None, promotion |-> None]
EnPassantCapture == [tag |-> "EnPassantCapture", captured |-> None, promotion |-> None]
PromoteTo(p) == [tag |-> "PromoteTo", captured |-> None, promotion |-> p]
Capture(p) == [tag |-> "Capture", captured |-> p, promotion |-> None]
CaptureWithPromotion(c, p) == [tag |-> "CaptureWithPromotion", captured |-> c, promotion |-> p]

Move(start, target, flag) ==
    [starting_square |-> start, target_square |-> target, flag |-> flag]

\* a fifty-move rule that counts captures by pieces as quiet moves
is_fifty_move_rule_resetting_pawn_move(b, mv) == b.squares[mv.starting_square] = Pawn

is_fifty_move_rule_resetting_move(b, mv) ==
    LET is_pawn_move == b.squares[mv.starting_square] = Pawn
        is_non_en_passant_capture ==
            /\ b.colors[mv.target_square] # None
            /\ b.colors[mv.target_square] # b.to_move
    IN  is_pawn_move \/ is_non_en_passant_capture

\* the array with the line that empties the square the piece left missing
relocate_copied(f, from, to) == [f EXCEPT ![to] = f[from]]

\* squares[to] = squares[from]; squares[from] = None  (in this order)
relocate(f, from, to) ==
    LET g == [f EXCEPT ![to] = f[from]]
    IN  [g EXCEPT ![from] = None]

\* the turn passed with full_move_number counting every ply
pass_turn_every_ply(b) ==
    [b EXCEPT !.to_move = opposite_color(b.to_move), !.full_move_number = @ + 1]

\* the closing lines of move_piece and of both castling helpers
pass_turn(b) ==
    IF b.to_move = White
    THEN [b EXCEPT !.to_move = Black]
    ELSE [b EXCEPT !.to_move = White, !.full_move_number = @ + 1]

\* a king move that gives up the king-side right only
lose_kingside_castling_priviledge_only(st, color) ==
    IF color = White
    THEN [st EXCEPT !.white_kingside_castling_priviledge = FALSE]
    ELSE [st EXCEPT !.black_kingside_castling_priviledge = FALSE]

lose_both_castling_priviledges(st, color) ==
    IF color = White
    THEN [st EXCEPT !.white_kingside_castling_priviledge = FALSE,
                    !.white_queenside_castling_priviledge = FALSE]
    ELSE [st EXCEPT !.black_kingside_castling_priviledge = FALSE,
                    !.black_queenside_castling_priviledge = FALSE]

make_kingside_castling_move(b, mv) ==
    LET king_to == IF b.to_move = White THEN G1 ELSE G8
        rook_from == IF b.to_move = White THEN H1 ELSE H8
        rook_to == IF b.to_move = White THEN F1 ELSE F8
        sq == relocate(relocate(b.squares, mv.starting_square, king_to), rook_from, rook_to)
        co == relocate(relocate(b.colors, mv.starting_square, king_to), rook_from, rook_to)
    IN  pass_turn([b EXCEPT !.squares = sq, !.colors = co,
                            !.board_state = lose_both_castling_priviledges(@, b.to_move)])

\* a queenside castle that puts the king on the b-file
make_queenside_castling_move_b_file(b, mv) ==
    LET king_to == IF b.to_move = White THEN B1 ELSE B8
        rook_from == IF b.to_move = White THEN A1 ELSE A8
        rook_to == IF b.to_move = White THEN D1 ELSE D8
        sq == relocate(relocate(b.squares, mv.starting_square, king_to), rook_from, rook_to)
        co == relocate(relocate(b.colors, mv.starting_square, king_to), rook_from, rook_to)
    IN  pass_turn([b EXCEPT !.squares = sq, !.colors = co,
                            !.board_state = lose_both_castling_priviledges(@, b.to_move)])

make_queenside_castling_move(b, mv) ==
    LET king_to == IF b.to_move = White THEN C1 ELSE C8
        rook_from == IF b.to_move = White THEN A1 ELSE A8
        rook_to == IF b.to_move = White THEN D1 ELSE D8
        sq == relocate(relocate(b.squares, mv.starting_square, king_to), rook_from, rook_to)
        co == relocate(relocate(b.colors, mv.starting_square, king_to), rook_from, rook_to)
    IN  pass_turn([b EXCEPT !.squares = sq, !.colors = co,
                            !.board_state = lose_both_castling_priviledges(@, b.to_move)])

\* a move_piece that leaves the rights alone when a rook is captured
lose_captured_rook_priviledge_skipped(st, b, mv) == st

\* "the rook is captured, castling rights to that particular side is lost"
\* (board.rs 279-305)
lose_captured_rook_priviledge(st, b, mv) ==
    LET to_ks == mv.target_square = (IF b.to_move = White THEN H8 ELSE H1)
        to_qs == mv.target_square = (IF b.to_move = White THEN A8 ELSE A1)
    IN  IF b.squares[mv.target_square] # Rook THEN st
        ELSE IF b.to_move = White
             THEN IF to_ks THEN [st EXCEPT !.black_kingside_castling_priviledge = FALSE]
                  ELSE IF to_qs THEN [st EXCEPT !.black_queenside_castling_priviledge = FALSE]
                  ELSE st
             ELSE IF to_ks THEN [st EXCEPT !.white_kingside_castling_priviledge = FALSE]
                  ELSE IF to_qs THEN [st EXCEPT !.white_queenside_castling_priviledge = FALSE]
                  ELSE st

\* the three castling-right updates of move_piece (board.rs 231-305)
update_castling_priviledges(b, mv) ==
    LET st0 == b.board_state
        st1 == IF b.squares[mv.starting_square] = King
               THEN lose_both_castling_priviledges(st0, b.to_move)
               ELSE st0
        from_ks == mv.starting_square = (IF b.to_move = White THEN H1 ELSE H8)
        from_qs == mv.starting_square = (IF b.to_move = White THEN A1 ELSE A8)
        st2 == IF b.squares[mv.starting_square] # Rook THEN st1
               ELSE IF b.to_move = White
                    THEN IF from_ks THEN [st1 EXCEPT !.white_kingside_castling_priviledge = FALSE]
                         ELSE IF from_qs THEN [st1 EXCEPT !.white_queenside_castling_priviledge = FALSE]
                         ELSE st1
                    ELSE IF from_ks THEN [st1 EXCEPT !.black_kingside_castling_priviledge = FALSE]
                         ELSE IF from_qs THEN [st1 EXCEPT !.black_queenside_castling_priviledge = FALSE]
                         ELSE st1
    IN  lose_captured_rook_priviledge(st2, b, mv)

\* a move_piece that forgets to save the state it is about to change
push_history_skipped(b) == b

\* self.board_state_history.push(self.board_state.clone())
push_history(b) ==
    [b EXCEPT !.board_state_history = Append(@, b.board_state)]

\* a move_piece that lets the ability to capture en passant outlive the move
en_passant_square_kept(b, mv) ==
    IF mv.flag.tag = "PawnDoublePush"
    THEN <<mv.starting_square + (IF b.to_move = White THEN 8 ELSE -8)>>
    ELSE b.board_state.en_passant_square

\* "With every move, the ability to en passant expires until a double pawn
\* push": the en_passant_square move_piece leaves (board.rs 190-205)
en_passant_square_after(b, mv) ==
    LET pawn_one_move_offset == IF b.to_move = White THEN 8 ELSE -8
    IN  IF mv.flag.tag = "PawnDoublePush"
        THEN <<mv.starting_square + pawn_one_move_offset>>
        ELSE <<>>

\* the captured pawn looked for behind the en-passant square as White sees it
captured_pawn_index_of_white(starting_piece_color, en_passant_square) ==
    en_passant_square - 8

\* the square of the pawn an en-passant capture takes
captured_pawn_index_of(starting_piece_color, en_passant_square) ==
    IF starting_piece_color = White THEN en_passant_square - 8 ELSE en_passant_square + 8

\* squares[index] = None; colors[index] = None
remove_piece(b, index) == [b EXCEPT !.squares[index] = None, !.colors[index] = None]

\* Board::move_piece.  An EnPassantCapture played with no en-passant square
\* aborts the program (expect); move_piece_aborts tells when.
move_piece_aborts(b, mv) ==
    \/ mv.flag.tag = "EnPassantCapture" /\ b.colors[mv.starting_square] = None
    \/ mv.flag.tag = "EnPassantCapture" /\ b.board_state.en_passant_square = <<>>

move_piece(b, mv) ==
    LET saved_en_passant_square == b.board_state.en_passant_square
        clock == IF is_fifty_move_rule_resetting_move(b, mv)
                 THEN 0
                 ELSE b.board_state.half_move_clock + 1
        ep == en_passant_square_after(b, mv)
        b1 == [push_history(b) EXCEPT !.board_state.en_passant_square = ep,
                                      !.board_state.half_move_clock = clock]
        b2 == IF mv.flag.tag = "EnPassantCapture"
              THEN remove_piece(b1, captured_pawn_index_of(b.colors[mv.starting_square],
                                                           saved_en_passant_square[1]))
              ELSE b1
        st == update_castling_priviledges(b2, mv)
        placed == IF mv.flag.tag \in {"PromoteTo", "CaptureWithPromotion"}
                  THEN mv.flag.promotion
                  ELSE b2.squares[mv.starting_square]
        sq == [[b2.squares EXCEPT ![mv.target_square] = placed]
                  EXCEPT ![mv.starting_square] = None]
        co == relocate(b2.colors, mv.starting_square, mv.target_square)
    IN  CASE mv.flag.tag = "KingsideCastle" -> make_kingside_castling_move(b1, mv)
          [] mv.flag.tag = "QueensideCastle" -> make_queenside_castling_move(b1, mv)
          [] OTHER -> pass_turn([b2 EXCEPT !.board_state = st, !.squares = sq, !.colors = co])

\* an unmake_move that hands the turn back before it looks at the history
already_at_oldest_move_after_turn(b) ==
    [ok |-> FALSE, err |-> "Already at oldest move",
     board |-> [b EXCEPT !.to_move = opposite_color(@)]]

\* the pop of an empty history: the ? operator returns the error at once
already_at_oldest_move(b) ==
    [ok |-> FALSE, err |-> "Already at oldest move", board |-> b]

\* an unmake_move that leaves the full-move number as the move left it
restore_full_move_number_skipped(b) == b

\* if self.to_move == Color::Black { self.full_move_number -= 1 }
restore_full_move_number(b) ==
    IF b.to_move = Black THEN [b EXCEPT !.full_move_number = @ - 1] ELSE b

\* Board::unmake_move: Ok(()) or Err(message), and the Board it leaves behind
unmake_move(b, mv) ==
    IF b.board_state_history = <<>>
    THEN already_at_oldest_move(b)
    ELSE
    LET n == Len(b.board_state_history)
        b1 == [b EXCEPT !.board_state = b.board_state_history[n],
                        !.board_state_history = SubSeq(@, 1, n - 1),
                        !.to_move = opposite_color(@)]
        me == b1.to_move
        piece == b1.squares[mv.target_square]
        color == b1.colors[mv.target_square]
        b2 == put_piece(b1, mv.starting_square, piece, color)
        tag == mv.flag.tag
        captured_pawn_index == IF me = White THEN mv.target_square - 8
                                             ELSE mv.target_square + 8
        king_home == IF me = White THEN E1 ELSE E8
        ks_rook == IF me = White THEN H1 ELSE H8
        ks_f == IF me = White THEN F1 ELSE F8
        ks_g == IF me = White THEN G1 ELSE G8
        qs_rook == IF me = White THEN A1 ELSE A8
        qs_c == IF me = White THEN C1 ELSE C8
        qs_d == IF me = White THEN D1 ELSE D8
        b3 == CASE tag = "Capture" ->
                     put_piece(b2, mv.target_square, mv.flag.captured, opposite_color(me))
                [] tag = "EnPassantCapture" ->
                     LET c1 == put_piece(b2, captured_pawn_index, Pawn, opposite_color(me))
                         c2 == put_piece(c1, mv.target_square, None, None)
                     IN  put_piece(c2, mv.starting_square, Pawn, me)
                [] tag = "PromoteTo" ->
                     put_piece(put_piece(b2, mv.starting_square, Pawn, me),
                               mv.target_square, None, None)
                [] tag = "KingsideCastle" ->
                     put_piece(put_piece(put_piece(put_piece(b2,
                        ks_rook, Rook, me), king_home, King, me),
                        ks_f, None, None), ks_g, None, None)
                [] tag = "QueensideCastle" ->
                     put_piece(put_piece(put_piece(put_piece(b2,
                        qs_rook, Rook, me), king_home, King, me),
                        qs_c, None, None), qs_d, None, None)
                [] tag = "CaptureWithPromotion" ->
                     put_piece(put_piece(b2, mv.target_square, mv.flag.captured,
                                         opposite_color(me)),
                               mv.starting_square, Pawn, me)
                [] OTHER -> put_piece(b2, mv.target_square, None, None)
        b4 == restore_full_move_number(b3)
    IN  IF piece = None \/ color = None
        THEN [ok |-> FALSE, err |-> "Tried to unmake move, but could not find piece",
              board |-> b1]
        ELSE [ok |-> TRUE, err |-> "", board |-> b4]

-----------------------------------------------------------------------------
(* MoveGenerator: move_generation.rs                                       *)

Min(a, b) == IF a < b THEN a ELSE b
Abs(x) == IF x < 0 THEN -x ELSE x

\* indexed 0..7 as in the source: N, S, W, E, NW, SE, NE, SW
direction_offsets == [i \in 0..7 |-> <<8, -8, -1, 1, 7, -7, 9, -9>>[i + 1]]

knight_move_offsets == <<-17, -15, -10, -6, 6, 10, 15, 17>>

precompute_move_data ==
    [square_index \in Squares |->
        LET rank == square_index \div 8
            file == square_index % 8
            num_north == 7 - rank
            num_south == rank
            num_east == 7 - file
            num_west == file
        IN  [i \in 0..7 |->
                <<num_north, num_south, num_west, num_east,
                  Min(num_north, num_west), Min(num_south, num_east),
                  Min(num_north, num_east), Min(num_south, num_west)>>[i + 1]]]

num_squares_to_edge == precompute_move_data

\* the test with the files left out
is_pacman_move_ranks(start, target) ==
    Abs((target \div 8) - (start \div 8)) > 2

is_pacman_move(start, target) ==
    LET starting_rank == start \div 8
        starting_file == start % 8
        target_rank == target \div 8
        target_file == target % 8
    IN  Abs(target_rank - starting_rank) > 2 \/ Abs(target_file - starting_file) > 2

\* the concatenation Op(lo) \o Op(lo+1) \o ... \o Op(hi): a for loop pushing
\* onto one Vec
RECURSIVE ForEach(_, _, _)
ForEach(Op(_), lo, hi) ==
    IF lo > hi THEN <<>>
    ELSE IF lo = hi THEN Op(lo)
    ELSE LET mid == (lo + hi) \div 2
         IN  ForEach(Op, lo, mid) \o ForEach(Op, mid + 1, hi)

RECURSIVE sliding_ray(_, _, _, _)
sliding_ray(b, start_square, direction_index, n) ==
    IF n >= num_squares_to_edge[start_square][direction_index] THEN <<>>
    ELSE
    LET target_square == start_square + direction_offsets[direction_index] * (n + 1)
        color_on_target_square == b.colors[target_square]
    IN  IF color_on_target_square # None
        THEN IF color_on_target_square # b.to_move
             THEN <<Move(start_square, target_square, Capture(b.squares[target_square]))>>
             ELSE <<>>
        ELSE <<Move(start_square, target_square, NoFlag)>>
                 \o sliding_ray(b, start_square, direction_index, n + 1)

generate_sliding_moves(b, start_square) ==
    LET piece == b.squares[start_square]
        start_direction_index == IF piece = Bishop THEN 4 ELSE 0
        end_direction_index == IF piece = Rook THEN 4 ELSE 8
        one_direction(d) == sliding_ray(b, start_square, d, 0)
    IN  ForEach(one_direction, start_direction_index, end_direction_index - 1)

generate_knight_moves(b, start_square) ==
    LET one_offset(i) ==
            LET tmp == start_square + knight_move_offsets[i]
            IN  IF tmp \notin Squares THEN <<>>
                ELSE IF is_pacman_move(start_square, tmp) THEN <<>>
                ELSE IF b.colors[tmp] = None
                     THEN <<Move(start_square, tmp, NoFlag)>>
                ELSE IF b.colors[tmp] # b.to_move
                     THEN <<Move(start_square, tmp, Capture(b.squares[tmp]))>>
                ELSE <<>>
    IN  ForEach(one_offset, 1, 8)

\* the promotion to a queen alone
add_promotion_moves_queen(start, target, captured_piece) ==
    IF captured_piece = None
    THEN <<Move(start, target, PromoteTo(Queen))>>
    ELSE <<Move(start, target, CaptureWithPromotion(captured_piece, Queen))>>

add_promotion_moves(start, target, captured_piece) ==
    IF captured_piece = None
    THEN << Move(start, target, PromoteTo(Queen)),
            Move(start, target, PromoteTo(Rook)),
            Move(start, target, PromoteTo(Bishop)),
            Move(start, target, PromoteTo(Knight)) >>
    ELSE << Move(start, target, CaptureWithPromotion(captured_piece, Queen)),
            Move(start, target, CaptureWithPromotion(captured_piece, Rook)),
            Move(start, target, CaptureWithPromotion(captured_piece, Bishop)),
            Move(start, target, CaptureWithPromotion(captured_piece, Knight)) >>

pawn_move_offsets(color) ==
    IF color = White THEN <<8, 16, 7, 9>> ELSE <<-8, -16, -7, -9>>

\* a pawn standing on its last rank makes the source index out of the array;
\* such a pawn never exists (it promotes), and the model generates nothing
generate_pawn_moves(b, start_square) ==
    LET offs == pawn_move_offsets(b.to_move)
        target_one_up_index == start_square + offs[1]
        target_one_up_rank == target_one_up_index \div 8
        can_move_up_one_rank == b.squares[target_one_up_index] = None
        pushes ==
            IF ~can_move_up_one_rank THEN <<>>
            ELSE IF ~(target_one_up_rank = 0 \/ target_one_up_rank = 7)
                 THEN <<Move(start_square, target_one_up_index, NoFlag)>>
                 ELSE add_promotion_moves(start_square, target_one_up_index, None)
        one_capture(i) ==
            LET target_square == start_square + offs[i]
                is_occupied_by_opponent_piece ==
                    b.colors[target_square] # None /\ b.colors[target_square] # b.to_move
                can_capture_en_passant ==
                    b.board_state.en_passant_square = <<target_square>>
                target_rank == target_square \div 8
            IN  IF target_square \notin Squares THEN <<>>
                ELSE IF is_pacman_move(start_square, target_square) THEN <<>>
                ELSE IF ~(is_occupied_by_opponent_piece \/ can_capture_en_passant) THEN <<>>
                ELSE IF target_rank = 0 \/ target_rank = 7
                     THEN add_promotion_moves(start_square, target_square,
                                              b.squares[target_square])
                ELSE IF can_capture_en_passant
                     THEN <<Move(start_square, target_square, EnPassantCapture)>>
                ELSE <<Move(start_square, target_square, Capture(b.squares[target_square]))>>
        starting_rank == start_square \div 8
        has_moved == \/ starting_rank # 1 /\ b.to_move = White
                     \/ starting_rank # 6 /\ b.to_move = Black
        target_two_up_index == start_square + offs[2]
        double_push ==
            IF ~can_move_up_one_rank \/ has_moved THEN <<>>
            ELSE IF b.squares[target_two_up_index] = None
                 THEN <<Move(start_square, target_two_up_index, PawnDoublePush)>>
                 ELSE <<>>
    IN  IF target_one_up_index \notin Squares THEN <<>>
        ELSE pushes \o ForEach(one_capture, 3, 4) \o double_push

generate_king_moves(b, start_square) ==
    LET one_offset(i) ==
            LET tmp == start_square + direction_offsets[i]
            IN  IF tmp \notin Squares THEN <<>>
                ELSE IF is_pacman_move(start_square, tmp) THEN <<>>
                ELSE IF b.colors[tmp] = None
                     THEN <<Move(start_square, tmp, NoFlag)>>
                ELSE IF b.colors[tmp] # b.colors[start_square]
                     THEN <<Move(start_square, tmp, Capture(b.squares[tmp]))>>
                ELSE <<>>
        white == b.to_move = White
        f == IF white THEN F1 ELSE F8
        g == IF white THEN G1 ELSE G8
        d == IF white THEN D1 ELSE D8
        c == IF white THEN C1 ELSE C8
        bb == IF white THEN B1 ELSE B8
        kingside_priviledge ==
            IF white THEN b.board_state.white_kingside_castling_priviledge
                     ELSE b.board_state.black_kingside_castling_priviledge
        queenside_priviledge ==
            IF white THEN b.board_state.white_queenside_castling_priviledge
                     ELSE b.board_state.black_queenside_castling_priviledge
        kingside_castling_path_clear == b.squares[f] = None /\ b.squares[g] = None
        queenside_castling_path_clear ==
            b.squares[d] = None /\ b.squares[c] = None /\ b.squares[bb] = None
        kingside == IF kingside_priviledge /\ kingside_castling_path_clear
                    THEN <<Move(start_square, g, KingsideCastle)>> ELSE <<>>
        queenside == IF queenside_priviledge /\ queenside_castling_path_clear
                     THEN <<Move(start_square, c, QueensideCastle)>> ELSE <<>>
    IN  ForEach(one_offset, 0, 7) \o kingside \o queenside

generate_pseudo_legal_moves(b) ==
    LET one_square(square) ==
            IF b.colors[square] = None \/ b.colors[square] # b.to_move THEN <<>>
            ELSE CASE b.squares[square] \in {Queen, Rook, Bishop} ->
                          generate_sliding_moves(b, square)
                   [] b.squares[square] = Knight -> generate_knight_moves(b, square)
                   [] b.squares[square] = Pawn -> generate_pawn_moves(b, square)
                   [] b.squares[square] = King -> generate_king_moves(b, square)
    IN  ForEach(one_square, 0, 63)

\* the square of color's king, as an Option
king_square_of(b, color) ==
    LET ks == {s \in Squares : b.colors[s] = color /\ b.squares[s] = King}
    IN  IF ks = {} THEN <<>> ELSE <<CHOOSE s \in ks : \A t \in ks : s <= t>>

\* does the slider on `square` reach king_square along direction_index
RECURSIVE ray_hits(_, _, _, _, _)
ray_hits(b, square, direction_index, n, king_square) ==
    IF n >= num_squares_to_edge[square][direction_index] THEN FALSE
    ELSE
    LET target_square == square + direction_offsets[direction_index] * (n + 1)
    IN  IF target_square = king_square THEN TRUE
        ELSE IF b.colors[target_square] = None
             THEN ray_hits(b, square, direction_index, n + 1, king_square)
             ELSE FALSE

\* the pawn's capture offsets chosen by the colour whose king is looked at
is_in_check_pawn_color_of_king(b, color_to_check) == color_to_check

\* the pawn's capture offsets are chosen by self.board.to_move
is_in_check_pawn_color(b, color_to_check) == b.to_move

is_in_check(b, color_to_check) ==
    LET king_square == king_square_of(b, color_to_check)[1]
        to_move == opposite_color(color_to_check)
        hits(square, target) ==
            /\ target \in Squares
            /\ ~is_pacman_move(square, target)
            /\ target = king_square
        attacks(square) ==
            LET piece == b.squares[square]
            IN  CASE piece = Pawn ->
                       LET offs == pawn_move_offsets(is_in_check_pawn_color(b, color_to_check))
                       IN  \E i \in 3..4 : hits(square, square + offs[i])
                  [] piece = King ->
                       \E i \in 0..7 : hits(square, square + direction_offsets[i])
                  [] piece = Knight ->
                       \E i \in 1..8 : hits(square, square + knight_move_offsets[i])
                  [] OTHER ->
                       LET start_direction_index == IF piece = Bishop THEN 4 ELSE 0
                           end_direction_index == IF piece = Rook THEN 4 ELSE 8
                       IN  \E d \in start_direction_index..(end_direction_index - 1) :
                               ray_hits(b, square, d, 0, king_square)
    IN  \E square \in Squares : b.colors[square] = to_move /\ attacks(square)

is_in_check_aborts(b, color_to_check) == king_square_of(b, color_to_check) = <<>>

\* the attack map, and the Board as the function leaves it (to_move is
\* flipped for the sweep and then restored)
\* an attack map that leaves the turn with the opponent
restore_to_move_skipped(fb, original_to_move) == fb

\* self.board.to_move = original_to_move
restore_to_move(fb, original_to_move) == [fb EXCEPT !.to_move = original_to_move]

calculate_opponent_attack_map(b) ==
    LET original_to_move == b.to_move
        fb == [b EXCEPT !.to_move = opposite_color(b.to_move)]
        pawn_targets(square) ==
            LET offs == pawn_move_offsets(fb.to_move)
            IN  {square + offs[i] : i \in 3..4} \cap
                    {t \in Squares : ~is_pacman_move(square, t)}
        one_square(square) ==
            IF fb.colors[square] # fb.to_move THEN <<>>
            ELSE CASE fb.squares[square] \in {Queen, Rook, Bishop} ->
                          generate_sliding_moves(fb, square)
                   [] fb.squares[square] = Knight -> generate_knight_moves(fb, square)
                   [] fb.squares[square] = King -> generate_king_moves(fb, square)
                   [] OTHER -> <<>>
        moves == ForEach(one_square, 0, 63)
        by_pawn == UNION {pawn_targets(s) : s \in {q \in Squares :
                              fb.colors[q] = fb.to_move /\ fb.squares[q] = Pawn}}
        by_move == {moves[i].target_square : i \in 1..Len(moves)}
    IN  [attack_map |-> [s \in Squares |-> s \in by_pawn \cup by_move],
         board |-> restore_to_move(fb, original_to_move)]

\* a path test that looks at the king's own square only
is_castling_path_clear_start_only(b, mv) ==
    ~calculate_opponent_attack_map(b).attack_map[IF b.to_move = White THEN E1 ELSE E8]

is_castling_path_clear(b, mv) ==
    LET attacked_map == calculate_opponent_attack_map(b).attack_map
        white == b.to_move = White
        e == IF white THEN E1 ELSE E8
        f == IF white THEN F1 ELSE F8
        g == IF white THEN G1 ELSE G8
        d == IF white THEN D1 ELSE D8
        c == IF white THEN C1 ELSE C8
    IN  CASE mv.flag.tag = "KingsideCastle" ->
                ~(attacked_map[e] \/ attacked_map[f] \/ attacked_map[g])
          [] mv.flag.tag = "QueensideCastle" ->
                ~(attacked_map[e] \/ attacked_map[d] \/ attacked_map[c])
          [] OTHER -> TRUE

\* MoveGenerator::generate_moves: the legal moves in generation order, and
\* the Board as the loop leaves it (every pseudo-legal move is made on
\* self.board, tested and unmade).  One iteration of the loop:
\* the closure of the retain call were it to keep every move that is not a
\* castle, whether or not it leaves the king in check
try_move_kept(b, mv, to_move) ==
    LET is_castle == mv.flag.tag \in {"KingsideCastle", "QueensideCastle"}
        b0 == IF is_castle THEN calculate_opponent_attack_map(b).board ELSE b
        undone == unmake_move(move_piece(b0, mv), mv).board
    IN  IF is_castle /\ ~is_castling_path_clear(b, mv)
        THEN [moves |-> <<>>, board |-> b0]
        ELSE [moves |-> <<mv>>, board |-> undone]

try_move(b, mv, to_move) ==
    LET is_castle == mv.flag.tag \in {"KingsideCastle", "QueensideCastle"}
        b0 == IF is_castle THEN calculate_opponent_attack_map(b).board ELSE b
        after == move_piece(b0, mv)
        in_check_after_move == is_in_check(after, to_move)
        undone == unmake_move(after, mv).board
    IN  IF is_castle /\ ~is_castling_path_clear(b, mv)
        THEN [moves |-> <<>>, board |-> b0]
        ELSE [moves |-> IF in_check_after_move THEN <<>> ELSE <<mv>>, board |-> undone]

\* the iterations lo..hi of the loop, started on Board b
RECURSIVE filter_legal(_, _, _, _, _)
filter_legal(b, pseudo, lo, hi, to_move) ==
    IF lo > hi THEN [moves |-> <<>>, board |-> b]
    ELSE IF lo = hi THEN try_move(b, pseudo[lo], to_move)
    ELSE LET mid == (lo + hi) \div 2
             left == filter_legal(b, pseudo, lo, mid, to_move)
             right == filter_legal(left.board, pseudo, mid + 1, hi, to_move)
         IN  [moves |-> left.moves \o right.moves, board |-> right.board]

generate_moves(b) ==
    LET pseudo_legal_moves == generate_pseudo_legal_moves(b)
    IN  filter_legal(b, pseudo_legal_moves, 1, Len(pseudo_legal_moves), b.to_move)

-----------------------------------------------------------------------------
(* Evaluator: evaluate.rs.  A table is indexed by square + 1.              *)

WHITE_PAWN_SQUARE_TABLE ==
    <<   0,   0,   0,   0,   0,   0,   0,   0,
        50,  50,  50,  50,  50,  50,  50,  50,
        10,  10,  20,  30,  30,  20,  10,  10,
         5,   5,  10,  25,  25,  10,   5,   5,
         0,   0,   0,  20,  20,   0,   0,   0,
         5,  -5, -10,   0,   0, -10,  -5,   5,
         5,  10,  10, -20, -20,  10,  10,   5,
         0,   0,   0,   0,   0,   0,   0,   0 >>

BLACK_PAWN_SQUARE_TABLE ==
    <<   0,   0,   0,   0,   0,   0,   0,   0,
         5,  10,  10, -20, -20,  10,  10,   5,
         5,  -5, -10,   0,   0, -10,  -5,   5,
         0,   0,   0,  20,  20,   0,   0,   0,
         5,   5,  10,  25,  25,  10,   5,   5,
        10,  10,  20,  30,  30,  20,  10,  10,
        50,  50,  50,  50,  50,  50,  50,  50,
         0,   0,   0,   0,   0,   0,   0,   0 >>

KNIGHT_SQUARE_TABLE ==
    << -50, -40, -30, -30, -30, -30, -40, -50,
       -40, -20,   0,   0,   0,   0, -20, -40,
       -30,   0,  10,  15,  15,  10,   0, -30,
       -30,   5,  15,  20,  20,  15,   5, -30,
       -30,   0,  15,  20,  20,  15,   0, -30,
       -30,   5,  10,  15,  15,  10,   5, -30,
       -40, -20,   0,   5,   5,   0, -20, -40,
       -50, -40, -30, -30, -30, -30, -40, -50 >>

WHITE_BISHOP_SQUARE_TABLE ==
    << -20, -10, -10, -10, -10, -10, -10, -20,
       -10,   0,   0,   0,   0,   0,   0, -10,
       -10,   0,   5,  10,  10,   5,   0, -10,
       -10,   5,   5,  10,  10,   5,   5, -10,
       -10,   0,  10,  10,  10,  10,   0, -10,
       -10,  10,  10,  10,  10,  10,  10, -10,
       -10,   5,   0,   0,   0,   0,   5, -10,
       -20, -10, -10, -10, -10, -10, -10, -20 >>

BLACK_BISHOP_SQUARE_TABLE ==
    << -20, -10, -10, -10, -10, -10, -10, -20,
       -10,   5,   0,   0,   0,   0,   5, -10,
       -10,  10,  10,  10,  10,  10,  10, -10,
       -10,   0,  10,  10,  10,  10,   0, -10,
       -10,   5,   5,  10,  10,   5,   5, -10,
       -10,   0,   5,  10,  10,   5,   0, -10,
       -10,   0,   0,   0,   0,   0,   0, -10,
       -20, -10, -10, -10, -10, -10, -10, -20 >>

WHITE_ROOK_SQUARE_TABLE ==
    <<   0,   0,   0,   0,   0,   0,   0,   0,
         5,  10,  10,  10,  10,  10,  10,   5,
        -5,   0,   0,   0,   0,   0,   0,  -5,
        -5,   0,   0,   0,   0,   0,   0,  -5,
        -5,   0,   0,   0,   0,   0,   0,  -5,
        -5,   0,   0,   0,   0,   0,   0,  -5,
        -5,   0,   0,   0,   0,   0,   0,  -5,
         0,   0,   0,   5,   5,   0,   0,   0 >>

BLACK_ROOK_SQUARE_TABLE ==
    <<   0,   0,   0,   5,   5,   0,   0,   0,
        -5,   0,   0,   0,   0,   0,   0,  -5,
        -5,   0,   0,   0,   0,   0,   0,  -5,
        -5,   0,   0,   0,   0,   0,   0,  -5,
        -5,   0,   0,   0,   0,   0,   0,  -5,
        -5,   0,   0,   0,   0,   0,   0,  -5,
         5,  10,  10,  10,  10,  10,  10,   5,
         0,   0,   0,   0,   0,   0,   0,   0 >>

WHITE_QUEEN_SQUARE_TABLE ==
    << -20, -10, -10,  -5,  -5, -10, -10, -20,
       -10,   0,   0,   0,   0,   0,   0, -10,
       -10,   0,   5,   5,   5,   5,   0, -10,
        -5,   0,   5,   5,   5,   5,   0,  -5,
         0,   0,   5,   5,   5,   5,   0,  -5,
       -10,   5,   5,   5,   5,   5,   0, -10,
       -10,   0,   5,   0,   0,   0,   0, -10,
       -20, -10, -10,  -5,  -5, -10, -10, -20 >>

BLACK_QUEEN_SQUARE_TABLE ==
    << -20, -10, -10,  -5,  -5, -10, -10, -20,
       -10,   0,   5,   0,   0,   0,   0, -10,
       -10,   5,   5,   5,   5,   5,   0, -10,
         0,   0,   5,   5,   5,   5,   0,  -5,
        -5,   0,   5,   5,   5,   5,   0,  -5,
       -10,   0,   5,   5,   5,   5,   0, -10,
       -10,   0,   0,   0,   0,   0,   0, -10,
       -20, -10, -10,  -5,  -5, -10, -10, -20 >>

WHITE_KING_MIDDLE_GAME_SQUARE_TABLE ==
    << -30, -40, -40, -50, -50, -40, -40, -30,
       -30, -40, -40, -50, -50, -40, -40, -30,
       -30, -40, -40, -50, -50, -40, -40, -30,
       -30, -40, -40, -50, -50, -40, -40, -30,
       -20, -30, -30, -40, -40, -30, -30, -20,
       -10, -20, -20, -20, -20, -20, -20, -10,
        20,  20,   0,   0,   0,   0,  20,  20,
        20,  30,  10,   0,   0,  10,  30,  20 >>

BLACK_KING_MIDDLE_GAME_SQUARE_TABLE ==
    <<  20,  30,  10,   0,   0,  10,  30,  20,
        20,  20,   0,   0,   0,   0,  20,  20,
       -10, -20, -20, -20, -20, -20, -20, -10,
       -20, -30, -30, -40, -40, -30, -30, -20,
       -30, -40, -40, -50, -50, -40, -40, -30,
       -30, -40, -40, -50, -50, -40, -40, -30,
       -30, -40, -40, -50, -50, -40, -40, -30,
       -30, -40, -40, -50, -50, -40, -40, -30 >>

count_material(b, color) ==
    LET one_square(square) ==
            IF b.colors[square] = color THEN <<piece_value(b.squares[square])>> ELSE <<>>
        values == ForEach(one_square, 0, 63)
        sum[i \in 0..Len(values)] == IF i = 0 THEN 0 ELSE sum[i - 1] + values[i]
    IN  sum[Len(values)]

square_table_value(piece, color, square) ==
    CASE piece = Pawn /\ color = White -> WHITE_PAWN_SQUARE_TABLE[square + 1]
      [] piece = Pawn /\ color = Black -> BLACK_PAWN_SQUARE_TABLE[square + 1]
      [] piece = Knight -> KNIGHT_SQUARE_TABLE[square + 1]
      [] piece = Bishop /\ color = White -> WHITE_BISHOP_SQUARE_TABLE[square + 1]
      [] piece = Bishop /\ color = Black -> BLACK_BISHOP_SQUARE_TABLE[square + 1]
      [] piece = Rook /\ color = White -> WHITE_ROOK_SQUARE_TABLE[square + 1]
      [] piece = Rook /\ color = Black -> BLACK_ROOK_SQUARE_TABLE[square + 1]
      [] piece = Queen /\ color = White -> WHITE_QUEEN_SQUARE_TABLE[square + 1]
      [] piece = Queen /\ color = Black -> BLACK_QUEEN_SQUARE_TABLE[square + 1]
      [] piece = King /\ color = White -> WHITE_KING_MIDDLE_GAME_SQUARE_TABLE[square + 1]
      [] piece = King /\ color = Black -> BLACK_KING_MIDDLE_GAME_SQUARE_TABLE[square + 1]

\* <<white_count, black_count>>
count_positional_evaluation(b) ==
    LET one_square(color, square) ==
            IF b.colors[square] = color /\ b.squares[square] # None
            THEN <<square_table_value(b.squares[square], color, square)>>
            ELSE <<>>
        white_square(square) == one_square(White, square)
        black_square(square) == one_square(Black, square)
        whites == ForEach(white_square, 0, 63)
        blacks == ForEach(black_square, 0, 63)
        wsum[i \in 0..Len(whites)] == IF i = 0 THEN 0 ELSE wsum[i - 1] + whites[i]
        bsum[i \in 0..Len(blacks)] == IF i = 0 THEN 0 ELSE bsum[i - 1] + blacks[i]
    IN  <<wsum[Len(whites)], bsum[Len(blacks)]>>

\* an evaluate that gives White's score whoever is to move
evaluate_for_white(b) ==
    LET positional == count_positional_evaluation(b)
    IN  (count_material(b, White) + positional[1])
            - (count_material(b, Black) + positional[2])

evaluate(b) ==
    LET white_material_eval == count_material(b, White)
        black_material_eval == count_material(b, Black)
        positional == count_positional_evaluation(b)
        net_eval == (white_material_eval + positional[1])
                        - (black_material_eval + positional[2])
    IN  IF b.to_move = White THEN net_eval ELSE -net_eval

\* piece_square_table.rs, read by Piece::position_value: the tables of the
\* cited Simplified Evaluation Function, written from White's side with the
\* eighth rank first
PAWN_SQUARE_TABLE == WHITE_PAWN_SQUARE_TABLE
BISHOP_SQUARE_TABLE == WHITE_BISHOP_SQUARE_TABLE
ROOK_SQUARE_TABLE == WHITE_ROOK_SQUARE_TABLE
QUEEN_SQUARE_TABLE == WHITE_QUEEN_SQUARE_TABLE
KING_MIDDLE_GAME_SQUARE_TABLE == WHITE_KING_MIDDLE_GAME_SQUARE_TABLE

position_value(piece, square, color) ==
    LET rank == 7 - (square \div 8)
        file == square % 8
        index == IF color = White THEN rank * 8 + file ELSE square
    IN  CASE piece = Pawn -> PAWN_SQUARE_TABLE[index + 1]
          [] piece = Knight -> KNIGHT_SQUARE_TABLE[index + 1]
          [] piece = Bishop -> BISHOP_SQUARE_TABLE[index + 1]
          [] piece = Rook -> ROOK_SQUARE_TABLE[index + 1]
          [] piece = Queen -> QUEEN_SQUARE_TABLE[index + 1]
          [] piece = King -> KING_MIDDLE_GAME_SQUARE_TABLE[index + 1]

-----------------------------------------------------------------------------
(* Search: search.rs                                                       *)

Max(a, b) == IF a > b THEN a ELSE b

guess_move_score(b, mv) ==
    LET starting_piece == b.squares[mv.starting_square]
        piece_color == b.colors[mv.starting_square]
        capture_piece_multiplier == 10
        by_flag ==
            CASE mv.flag.tag = "PromoteTo" -> piece_value(mv.flag.promotion)
              [] mv.flag.tag = "Capture" ->
                    capture_piece_multiplier * piece_value(mv.flag.captured)
                        - piece_value(starting_piece)
              [] mv.flag.tag = "CaptureWithPromotion" ->
                    piece_value(mv.flag.promotion)
                        + capture_piece_multiplier * piece_value(mv.flag.captured)
                        - piece_value(starting_piece)
              [] OTHER -> 0
        position_eval_diff ==
            position_value(starting_piece, mv.target_square, piece_color)
                - position_value(starting_piece, mv.starting_square, piece_color)
    IN  -(by_flag + position_eval_diff)

\* moves.sort_unstable_by_key(|mv| guess_move_score(..)): ascending keys; the
\* slices sorted here are short, where the sort is an insertion sort and
\* moves of equal key keep their order
RECURSIVE insert_by_key(_, _)
insert_by_key(sorted, x) ==
    IF sorted = <<>> THEN <<x>>
    ELSE IF sorted[Len(sorted)].key <= x.key THEN Append(sorted, x)
    ELSE Append(insert_by_key(SubSeq(sorted, 1, Len(sorted) - 1), x), sorted[Len(sorted)])

sort_unstable_by_key(b, moves) ==
    LET keyed == [i \in 1..Len(moves) |-> [key |-> guess_move_score(b, moves[i]), mv |-> moves[i]]]
        sorted[i \in 0..Len(moves)] ==
            IF i = 0 THEN <<>> ELSE insert_by_key(sorted[i - 1], keyed[i])
    IN  [i \in 1..Len(moves) |-> sorted[Len(moves)][i].mv]

is_capture_flag(mv) ==
    mv.flag.tag \in {"EnPassantCapture", "Capture", "CaptureWithPromotion"}

\* the unmake_move after a recursive call
take_back(b, mv) == unmake_move(b, mv).board

\* "Move too good, opponent will avoid": beta is returned, the move unmade
beta_cutoff(beta, undone, after_child) == [eval |-> beta, board |-> undone]

\* the least i32, which has no negative in an i32
I32_MIN == -INF - 1

\* the i32 negation of a value search returned: exact but for the least
\* i32, which stays what it is where it does not abort the program
neg(eval) == IF eval = I32_MIN THEN I32_MIN ELSE -eval

\* a mate score of the least i32
no_moves_value_min(b) ==
    IF is_in_check(b, b.to_move) THEN I32_MIN ELSE 0

\* the value when a node has no legal move (search.rs 88-96)
no_moves_value(b) ==
    IF is_in_check(b, b.to_move) THEN -INF ELSE 0

\* search and search_all_captures return the value and leave the Board they
\* worked on; both are returned here
RECURSIVE search(_, _, _, _)
RECURSIVE search_moves(_, _, _, _, _, _)
RECURSIVE search_all_captures(_, _, _)
RECURSIVE search_capture_moves(_, _, _, _, _)

\* search_all_captures after the recursive call on capture i: the cutoff
\* test on the negated value and the next turn of the loop
search_capture_moves_next(eval, undone, after_child, capture_moves, i, alpha, beta) ==
    IF eval >= beta THEN beta_cutoff(beta, undone, after_child)
    ELSE search_capture_moves(undone, capture_moves, i + 1, Max(alpha, eval), beta)

\* search_all_captures after the recursive call on capture i: the unmake
search_capture_moves_unmake(r, capture_moves, i, alpha, beta) ==
    search_capture_moves_next(neg(r.eval), take_back(r.board, capture_moves[i]), r.board,
                              capture_moves, i, alpha, beta)

\* the for loop of search_all_captures from capture i on
search_capture_moves(b, capture_moves, i, alpha, beta) ==
    IF i > Len(capture_moves) THEN [eval |-> alpha, board |-> b]
    ELSE search_capture_moves_unmake(
             search_all_captures(move_piece(b, capture_moves[i]), -beta, -alpha),
             capture_moves, i, alpha, beta)

\* search_all_captures once the moves are generated: filter, sort, loop
search_generated_captures(gm, alpha, beta) ==
    search_capture_moves(gm.board,
                         sort_unstable_by_key(gm.board, SelectSeq(gm.moves, is_capture_flag)),
                         1, alpha, beta)

\* search_all_captures once the position is evaluated
search_all_captures_evaluated(b, eval, alpha, beta) ==
    IF eval >= beta THEN [eval |-> beta, board |-> b]
    ELSE search_generated_captures(generate_moves(b), Max(alpha, eval), beta)

search_all_captures(b, alpha, beta) ==
    search_all_captures_evaluated(b, evaluate(b), alpha, beta)

\* search after the recursive call on move i: the cutoff test on the negated
\* value and the next turn of the loop
search_moves_next(eval, undone, after_child, moves, i, depth, alpha, beta) ==
    IF eval >= beta THEN beta_cutoff(beta, undone, after_child)
    ELSE search_moves(undone, moves, i + 1, depth, Max(eval, alpha), beta)

\* search after the recursive call on move i: the unmake
search_moves_unmake(r, moves, i, depth, alpha, beta) ==
    search_moves_next(neg(r.eval), take_back(r.board, moves[i]), r.board,
                      moves, i, depth, alpha, beta)

\* the for loop of search from move i on
search_moves(b, moves, i, depth, alpha, beta) ==
    IF i > Len(moves) THEN [eval |-> alpha, board |-> b]
    ELSE search_moves_unmake(search(move_piece(b, moves[i]), depth - 1, -beta, -alpha),
                             moves, i, depth, alpha, beta)

\* search once the moves are generated
search_generated(gm, depth, alpha, beta) ==
    IF gm.moves = <<>>
    THEN [eval |-> no_moves_value(gm.board), board |-> gm.board]
    ELSE search_moves(gm.board, sort_unstable_by_key(gm.board, gm.moves),
                      1, depth, alpha, beta)

search(b, depth, alpha, beta) ==
    IF depth = 0 THEN search_all_captures(b, alpha, beta)
    ELSE search_generated(generate_moves(b), depth, alpha, beta)

\* Square::from_algebraic_notation on the two characters of a square name
from_algebraic_notation(name) ==
    LET files == <<"a", "b", "c", "d", "e", "f", "g", "h">>
        ranks == <<"1", "2", "3", "4", "5", "6", "7", "8">>
        file == {f \in 1..8 : files[f] = name[1]}
        rank == {r \in 1..8 : ranks[r] = name[2]}
    IN  IF file = {} \/ rank = {}
        THEN [ok |-> FALSE, square |-> 0]
        ELSE [ok |-> TRUE,
              square |-> ((CHOOSE r \in rank : TRUE) - 1) * 8 + (CHOOSE f \in file : TRUE) - 1]

\* algebraic_notation.chars().nth(4) as a promotion piece; a string is the
\* sequence of its characters
uci_promotion_piece(uci) ==
    IF Len(uci) < 5 THEN [ok |-> TRUE, piece |-> None]
    ELSE CASE uci[5] = "q" -> [ok |-> TRUE, piece |-> Queen]
           [] uci[5] = "r" -> [ok |-> TRUE, piece |-> Rook]
           [] uci[5] = "n" -> [ok |-> TRUE, piece |-> Knight]
           [] uci[5] = "b" -> [ok |-> TRUE, piece |-> Bishop]
           [] OTHER -> [ok |-> FALSE, piece |-> None]

\* the slices [0..2] and [2..4] of a string of fewer than four characters
\* abort the program
try_from_uci_aborts(uci) == uci_promotion_piece(uci).ok /\ Len(uci) < 4

\* Move::try_from_uci once the moves are generated: the first that agrees
first_agreeing(found, b) ==
    IF found = <<>>
    THEN [ok |-> FALSE, err |-> "Not a legal move", mv |-> Move(0, 0, NoFlag), board |-> b]
    ELSE [ok |-> TRUE, err |-> "", mv |-> found[1], board |-> b]

\* the closures of the two find calls, on the parsed string
uci_agrees(uci, mv) ==
    /\ mv.starting_square = uci.from
    /\ mv.target_square = uci.to
    /\ uci.promotion # None =>
          /\ mv.flag.tag \in {"PromoteTo", "CaptureWithPromotion"}
          /\ mv.flag.promotion = uci.promotion

\* Move::try_from_uci from its call of generate_moves on
try_from_uci_generated(uci, gm) ==
    first_agreeing(SelectSeq(gm.moves, LAMBDA mv : uci_agrees(uci, mv)), gm.board)

\* Move::try_from_uci on a string that does not abort it: the errors of the
\* fifth character and of the two square names, then the first generated
\* move that agrees, or the error "Not a legal move"
try_from_uci(uci, b) ==
    LET failed(err) == [ok |-> FALSE, err |-> err, mv |-> Move(0, 0, NoFlag), board |-> b]
    IN  IF ~uci_promotion_piece(uci).ok
        THEN failed("Not a known promotion piece of q, r, n or b")
        ELSE IF ~from_algebraic_notation(SubSeq(uci, 1, 2)).ok
                  \/ ~from_algebraic_notation(SubSeq(uci, 3, 4)).ok
        THEN failed("Not a square")
        ELSE try_from_uci_generated(
                 [from |-> from_algebraic_notation(SubSeq(uci, 1, 2)).square,
                  to |-> from_algebraic_notation(SubSeq(uci, 3, 4)).square,
                  promotion |-> uci_promotion_piece(uci).piece],
                 generate_moves(b))

\* a Display for Move that writes the two square names and nothing more
to_uci_squares(mv) ==
    LET files == <<"a", "b", "c", "d", "e", "f", "g", "h">>
        ranks == <<"1", "2", "3", "4", "5", "6", "7", "8">>
        name(sq) == <<files[(sq % 8) + 1], ranks[(sq \div 8) + 1]>>
    IN  name(mv.starting_square) \o name(mv.target_square)

\* impl Display for Move: the two square names in lower case and, for a
\* promotion, the symbol of the black piece
to_uci(mv) ==
    LET files == <<"a", "b", "c", "d", "e", "f", "g", "h">>
        ranks == <<"1", "2", "3", "4", "5", "6", "7", "8">>
        name(sq) == <<files[(sq % 8) + 1], ranks[(sq \div 8) + 1]>>
        to_symbol(piece) ==
            CASE piece = Pawn -> "p" [] piece = Knight -> "n" [] piece = Bishop -> "b"
              [] piece = Rook -> "r" [] piece = Queen -> "q" [] piece = King -> "k"
    IN  name(mv.starting_square) \o name(mv.target_square)
            \o (IF mv.flag.tag \in {"PromoteTo", "CaptureWithPromotion"}
                THEN <<to_symbol(mv.flag.promotion)>> ELSE <<>>)

\* Option<i32> comparison a > b, None being the least
option_gt(a, b) == a # <<>> /\ (b = <<>> \/ a[1] > b[1])

\* a get_best_move that keeps the first loss it meets, whatever its dtm
get_best_move_first_loss(moves) ==
    LET best[i \in 0..Len(moves)] ==
            IF i = 0 THEN moves[1]
            ELSE LET best_move == best[i - 1]
                     mv == moves[i]
                 IN  CASE best_move.category = "win" ->
                              IF mv.category \in {"draw", "loss"} THEN mv ELSE best_move
                       [] best_move.category = "loss" -> best_move
                       [] best_move.category = "draw" ->
                              IF mv.category = "loss" THEN mv ELSE best_move
    IN  best[Len(moves)]

\* TablebaseResponse::get_best_move
get_best_move(moves) ==
    LET best[i \in 0..Len(moves)] ==
            IF i = 0 THEN moves[1]
            ELSE LET best_move == best[i - 1]
                     mv == moves[i]
                 IN  CASE best_move.category = "win" ->
                              IF mv.category \in {"draw", "loss"} THEN mv ELSE best_move
                       [] best_move.category = "loss" ->
                              IF mv.category = "loss" /\ option_gt(mv.dtm, best_move.dtm)
                              THEN mv ELSE best_move
                       [] best_move.category = "draw" ->
                              IF mv.category = "loss" THEN mv ELSE best_move
    IN  best[Len(moves)]

\* a query_tablebase that takes the squares of the tablebase move as they
\* are written, without looking the move up among the legal moves
query_tablebase_best_unresolved(b, best_move) ==
    [ok |-> TRUE, err |-> "",
     mv |-> Move(from_algebraic_notation(SubSeq(best_move.uci, 1, 2)).square,
                 from_algebraic_notation(SubSeq(best_move.uci, 3, 4)).square, NoFlag),
     board |-> b,
     eval |-> CASE best_move.category = "win" -> -INF
                [] best_move.category = "draw" -> 0
                [] best_move.category = "loss" -> INF]

\* query_tablebase once the best tablebase move is picked
query_tablebase_best(b, best_move) ==
    try_from_uci(best_move.uci, b) @@
    [eval |-> CASE best_move.category = "win" -> -INF
                [] best_move.category = "draw" -> 0
                [] best_move.category = "loss" -> INF]

\* query_tablebase, given what the server answered: an error, or the moves
query_tablebase(b, answer) ==
    IF ~answer.ok
    THEN [ok |-> FALSE, err |-> "Call to tablebase failed", mv |-> Move(0, 0, NoFlag),
          eval |-> 0, board |-> b]
    ELSE query_tablebase_best(b, get_best_move(answer.moves))

pieces_left(b) == Cardinality({sq \in Squares : b.squares[sq] # None})

\* find_best_move from its sort on, as one call: the loops over the depths
\* and the root moves, the return on +INF, the return of the best move
RECURSIVE find_best_move_loop(_, _, _, _, _, _, _, _)

\* the inner loop after the search of root move i
find_best_move_next(eval, undone, moves, depth, curr_depth, i, alpha, best) ==
    IF eval = INF THEN [mv |-> moves[i], eval |-> eval, board |-> undone]
    ELSE IF eval > alpha
    THEN find_best_move_loop(undone, moves, depth, curr_depth, i + 1, eval,
                             moves[i], eval)
    ELSE find_best_move_loop(undone, moves, depth, curr_depth, i + 1, alpha,
                             best.mv, best.eval)

find_best_move_searched(r, moves, depth, curr_depth, i, alpha, best) ==
    find_best_move_next(neg(r.eval), take_back(r.board, moves[i]), moves, depth,
                        curr_depth, i, alpha, best)

find_best_move_loop(b, moves, depth, curr_depth, i, alpha, best_move, best_eval) ==
    IF curr_depth >= depth THEN [mv |-> best_move, eval |-> best_eval, board |-> b]
    ELSE IF i > Len(moves)
    THEN find_best_move_loop(b, moves, depth, curr_depth + 1, 1, -INF, best_move, best_eval)
    ELSE find_best_move_searched(search(move_piece(b, moves[i]), curr_depth, -INF, -alpha),
                                 moves, depth, curr_depth, i, alpha,
                                 [mv |-> best_move, eval |-> best_eval])

\* find_best_move from its loops on, the moves being sorted
find_best_move_sorted(b, sorted, depth) ==
    find_best_move_loop(b, sorted, depth, 0, 1, -INF, sorted[1], -INF)

\* find_best_move after the tablebase was asked, tb being its answer
find_best_move_asked(moves, tb, depth) ==
    IF tb.ok THEN [mv |-> tb.mv, eval |-> tb.eval, board |-> tb.board]
    ELSE find_best_move_sorted(tb.board, sort_unstable_by_key(tb.board, moves), depth)

\* a find_best_move that asks the tablebase whatever is left on the board
find_best_move_tablebase_always(b, answer) == query_tablebase(b, answer)

\* the tablebase is asked when at most seven pieces are left
find_best_move_tablebase(b, answer) ==
    IF pieces_left(b) <= 7 THEN query_tablebase(b, answer)
    ELSE [ok |-> FALSE, err |-> "", mv |-> Move(0, 0, NoFlag), eval |-> 0, board |-> b]

\* find_best_move(&mut moves, &mut move_generator, depth), given what the
\* tablebase server answers
find_best_move(moves, b, depth, answer) ==
    find_best_move_asked(moves, find_best_move_tablebase(b, answer), depth)

\* Game::check_game_state once the moves are generated
game_state(gm) ==
    [state |-> IF gm.moves = <<>>
               THEN IF is_in_check(gm.board, gm.board.to_move)
                    THEN "Checkmate" ELSE "Stalemate"
               ELSE "Active",
     board |-> gm.board]

\* Game::check_game_state
check_game_state(b) == game_state(generate_moves(b))

-----------------------------------------------------------------------------
(* Positions the engine is started from                                    *)

At(f, r) == (r - 1) * 8 + (f - 1)

\* BoardBuilder::piece applied to a list of <<square, piece, color>>
RECURSIVE pieces(_, _, _)
pieces(b, list, i) ==
    IF i > Len(list) THEN b
    ELSE pieces(put_piece(b, list[i][1], list[i][2], list[i][3]), list, i + 1)

\* BoardBuilder::try_from_fen: layout, side to move, castling field (a set of
\* the characters K Q k q), the clocks; the en-passant field is "-"
from_fen(list, to_move, castling_rights, half_move_clock, full_move_number) ==
    [ pieces(BoardDefault, list, 1) EXCEPT
        !.to_move = to_move,
        !.full_move_number = full_move_number,
        !.board_state.half_move_clock = half_move_clock,
        !.board_state.white_kingside_castling_priviledge = "K" \in castling_rights,
        !.board_state.black_kingside_castling_priviledge = "k" \in castling_rights,
        !.board_state.white_queenside_castling_priviledge = "Q" \in castling_rights,
        !.board_state.black_queenside_castling_priviledge = "q" \in castling_rights ]

back_rank(r, color) ==
    << <<At(1, r), Rook, color>>, <<At(2, r), Knight, color>>, <<At(3, r), Bishop, color>>,
       <<At(4, r), Queen, color>>, <<At(5, r), King, color>>, <<At(6, r), Bishop, color>>,
       <<At(7, r), Knight, color>>, <<At(8, r), Rook, color>> >>

pawn_rank(r, color) == [f \in 1..8 |-> <<At(f, r), Pawn, color>>]

\* rnbqkbnr/pppppppp/8/8/8/8/PPPPPPPP/RNBQKBNR w KQkq - 0 1
starting_position ==
    from_fen(back_rank(1, White) \o pawn_rank(2, White)
                 \o pawn_rank(7, Black) \o back_rank(8, Black),
             White, {"K", "Q", "k", "q"}, 0, 1)

\* r3k2r/p6p/8/1b6/8/8/P6P/R3K2R w KQkq - 3 9 : f1 is attacked by the bishop
CastlingPosition ==
    from_fen(<< <<A1, Rook, White>>, <<E1, King, White>>, <<H1, Rook, White>>,
                <<At(1, 2), Pawn, White>>, <<At(8, 2), Pawn, White>>,
                <<At(2, 5), Bishop, Black>>,
                <<At(1, 7), Pawn, Black>>, <<At(8, 7), Pawn, Black>>,
                <<A8, Rook, Black>>, <<E8, King, Black>>, <<H8, Rook, Black>> >>,
             White, {"K", "Q", "k", "q"}, 3, 9)

\* r3k2r/8/8/8/8/8/8/R3K2R b KQkq - 0 12
OpenCastlingPosition ==
    from_fen(<< <<A1, Rook, White>>, <<E1, King, White>>, <<H1, Rook, White>>,
                <<A8, Rook, Black>>, <<E8, King, Black>>, <<H8, Rook, Black>> >>,
             Black, {"K", "Q", "k", "q"}, 0, 12)

\* r3k3/1P6/8/8/8/8/6p1/4K2R w K - 0 30 : promotions and capture-promotions
PromotionPosition ==
    from_fen(<< <<E1, King, White>>, <<H1, Rook, White>>, <<At(2, 7), Pawn, White>>,
                <<At(7, 2), Pawn, Black>>, <<A8, Rook, Black>>, <<E8, King, Black>> >>,
             White, {"K"}, 0, 30)

\* 4k3/3p4/8/4P3/3p4/8/2P5/4K3 b - - 0 20 : double pushes and en passant
EnPassantPosition ==
    from_fen(<< <<E1, King, White>>, <<At(3, 2), Pawn, White>>, <<At(5, 5), Pawn, White>>,
                <<At(4, 4), Pawn, Black>>, <<At(4, 7), Pawn, Black>>, <<E8, King, Black>> >>,
             Black, {}, 0, 20)

\* 7k/7P/6PK/8/8/8/8/8 w - - 0 50 : g6-g7 is mate, given by the pawn
PawnMatePosition ==
    from_fen(<< <<At(8, 6), King, White>>, <<At(7, 6), Pawn, White>>,
                <<At(8, 7), Pawn, White>>, <<H8, King, Black>> >>,
             White, {}, 0, 50)

\* 8/8/8/8/8/8/1PK1B3/k7 w - - 0 60 : Be2-c4 stalemates Black
StalematePosition ==
    from_fen(<< <<A1, King, Black>>, <<At(2, 2), Pawn, White>>,
                <<At(3, 2), King, White>>, <<At(5, 2), Bishop, White>> >>,
             White, {}, 0, 60)

\* 4r2k/8/8/8/8/8/4N3/4K2q w - - 0 40 : a pinned knight, a king in check
PinPosition ==
    from_fen(<< <<E1, King, White>>, <<At(5, 2), Knight, White>>,
                <<H1, Queen, Black>>, <<E8, Rook, Black>>, <<H8, King, Black>> >>,
             White, {}, 0, 40)

Positions ==
    { starting_position, CastlingPosition, OpenCastlingPosition, PromotionPosition,
      EnPassantPosition, PawnMatePosition, StalematePosition, PinPosition }

-----------------------------------------------------------------------------
(* The state machine                                                       *)

MaxPly == 2

NoMove == Move(0, 0, NoFlag)

\* what the last call was given and what it returned
Outcome(op, ok, err, before, mv) ==
    [op |-> op, ok |-> ok, err |-> err, before |-> before, mv |-> mv,
     depth |-> 0, value |-> 0, state |-> ""]

Returned(op, before, depth, value, state, mv) ==
    [op |-> op, ok |-> TRUE, err |-> "", before |-> before, mv |-> mv,
     depth |-> depth, value |-> value, state |-> state]

\* the frame of find_best_move: its arguments, its locals, where it stands
Idle ==
    [pc |-> "idle", entry |-> BoardDefault, moves |-> <<>>, depth |-> 0,
     tablebase |-> FALSE, curr_depth |-> 0, i |-> 0, alpha |-> 0,
     best_move |-> NoMove, best_eval |-> 0, answer |-> [ok |-> FALSE, moves |-> <<>>]]

\* the UCI loop before its first input
BotNew == [alive |-> TRUE, input |-> <<>>, printed |-> <<>>, logged |-> <<>>]

Init ==
    /\ board \in Positions
    /\ made = <<>>
    /\ entry = <<>>
    /\ last = Outcome("new", TRUE, "", board, NoMove)
    /\ fbm = Idle
    /\ bot = BotNew
    /\ perft = <<>>

\* a caller plays one of the generated moves: board.move_piece(&mv); once it
\* has taken moves back it unwinds to its first position before it plays on
MovePiece ==
    /\ fbm.pc = "idle"
    /\ Len(made) < MaxPly
    /\ last.op = "unmake_move" => made = <<>>
    /\ \E moves \in {generate_moves(board).moves} :
         \E i \in 1..Len(moves) :
            /\ board' = move_piece(board, moves[i])
            /\ made' = Append(made, moves[i])
            /\ entry' = Append(entry, board)
            /\ last' = Outcome("move_piece", TRUE, "", board, moves[i])
    /\ UNCHANGED <<fbm, bot, perft>>

\* the caller takes back its most recent move: board.unmake_move(&mv)
UnmakeMove ==
    /\ fbm.pc = "idle"
    /\ made # <<>>
    /\ \E res \in {unmake_move(board, made[Len(made)])} :
          /\ board' = res.board
          /\ last' = Outcome("unmake_move", res.ok, res.err, board, made[Len(made)])
    /\ made' = SubSeq(made, 1, Len(made) - 1)
    /\ entry' = SubSeq(entry, 1, Len(entry) - 1)
    /\ UNCHANGED <<fbm, bot, perft>>

\* unmake_move is called although nothing was made
UnmakeMoveAtOldest ==
    /\ fbm.pc = "idle"
    /\ made = <<>>
    /\ \E moves \in {generate_moves(board).moves} :
         \E i \in 1..Len(moves) :
           \E res \in {unmake_move(board, moves[i])} :
              /\ board' = res.board
              /\ last' = Outcome("unmake_move", res.ok, res.err, board, moves[i])
    /\ UNCHANGED <<made, entry, fbm, bot, perft>>

\* MoveGenerator::generate_moves run on the current position
GenerateMoves ==
    /\ fbm.pc = "idle"
    /\ Len(made) < MaxPly
    /\ last.op \in {"new", "move_piece"}
    /\ board' = generate_moves(board).board
    /\ last' = Outcome("generate_moves", TRUE, "", board, NoMove)
    /\ UNCHANGED <<made, entry, fbm, bot, perft>>

Next ==
    \/ MovePiece
    \/ UnmakeMove
    \/ UnmakeMoveAtOldest
    \/ GenerateMoves

Spec == Init /\ [][Next]_vars

-----------------------------------------------------------------------------
(* The searcher at work on a position                                      *)

MaxDepth == 3

\* 8/8/8/8/8/7k/8/r6K w - - 0 70 : White is mated by the rook
RookMatedPosition ==
    from_fen(<< <<H1, King, White>>, <<At(8, 3), King, Black>>, <<A1, Rook, Black>> >>,
             White, {}, 0, 70)

\* r7/8/8/8/8/7k/8/7K b - - 0 69 : Ra8-a1 is mate
RookMatePosition ==
    from_fen(<< <<H1, King, White>>, <<At(8, 3), King, Black>>, <<A8, Rook, Black>> >>,
             Black, {}, 0, 69)

\* 7k/6PP/7K/8/8/8/8/8 b - - 0 50 : Black is mated by the pawn on g7
PawnMatedPosition ==
    from_fen(<< <<At(8, 6), King, White>>, <<At(7, 7), Pawn, White>>,
                <<At(8, 7), Pawn, White>>, <<H8, King, Black>> >>,
             Black, {}, 0, 50)

\* 8/8/8/8/2B5/8/1PK5/k7 b - - 1 60 : Black has no move and is not attacked
StalematedPosition ==
    from_fen(<< <<A1, King, Black>>, <<At(2, 2), Pawn, White>>,
                <<At(3, 2), King, White>>, <<At(3, 4), Bishop, White>> >>,
             Black, {}, 1, 60)

\* k7/8/1Q6/8/8/8/8/7K b - - 0 80 : the textbook stalemate
QueenStalematedPosition ==
    from_fen(<< <<A8, King, Black>>, <<At(2, 6), Queen, White>>, <<H1, King, White>> >>,
             Black, {}, 0, 80)

\* k7/8/8/4q3/8/8/8/4R2K w - - 0 33 : the rook wins the queen
WinningCapturePosition ==
    from_fen(<< <<A8, King, Black>>, <<At(5, 5), Queen, Black>>,
                <<E1, Rook, White>>, <<H1, King, White>> >>,
             White, {}, 0, 33)

\* 4k3/8/8/3pP3/3p4/8/2P5/4K3 w - d6 0 21 : EnPassantPosition after d7-d5,
\* the double push in the history
EnPassantReplyPosition ==
    move_piece(EnPassantPosition, Move(At(4, 7), At(4, 5), PawnDoublePush))

\* 1r6/8/8/8/8/6k1/P7/7K w - - 0 40 : whatever White plays, Rb8-b1 mates
MatedNextPosition ==
    from_fen(<< <<H1, King, White>>, <<At(1, 2), Pawn, White>>,
                <<At(7, 3), King, Black>>, <<At(2, 8), Rook, Black>> >>,
             White, {}, 0, 40)

SearchPositions ==
    { RookMatePosition, RookMatedPosition, PawnMatePosition, PawnMatedPosition,
      StalematePosition, StalematedPosition, QueenStalematedPosition,
      WinningCapturePosition, CastlingPosition, EnPassantReplyPosition,
      MatedNextPosition }

\* what the tablebase server may answer for a position: no answer, a move
\* of the position, or a move the position does not have
TablebaseMove(uci, category, dtm) == [uci |-> uci, category |-> category, dtm |-> dtm]

TablebaseAnswers(moves) ==
    {[ok |-> FALSE, moves |-> <<>>]}
      \cup {[ok |-> TRUE, moves |-> <<TablebaseMove(to_uci(moves[Len(moves)]), "draw", <<>>)>>]}
      \cup {[ok |-> TRUE,
             moves |-> <<TablebaseMove(<<"a", "1", "a", "1">>, "loss", <<-1>>)>>]}

InitSearch ==
    /\ board \in SearchPositions
    /\ made = <<>>
    /\ entry = <<>>
    /\ last = Outcome("new", TRUE, "", board, NoMove)
    /\ fbm = Idle
    /\ bot = BotNew
    /\ perft = <<>>

\* search(&mut move_generator, depth, -INF, INF)
SearchCall ==
    /\ fbm.pc = "idle"
    /\ last.op = "new"
    /\ \E depth \in 1..MaxDepth :
         \E r \in {search(board, depth, -INF, INF)} :
            /\ board' = r.board
            /\ last' = Returned("search", board, depth, r.eval, "", NoMove)
    /\ UNCHANGED <<made, entry, fbm, bot, perft>>

\* search at depth 0, which is search_all_captures(&mut move_generator, -INF, INF)
SearchAllCapturesCall ==
    /\ fbm.pc = "idle"
    /\ last.op = "new"
    /\ \E r \in {search_all_captures(board, -INF, INF)} :
          /\ board' = r.board
          /\ last' = Returned("search_all_captures", board, 0, r.eval, "", NoMove)
    /\ UNCHANGED <<made, entry, fbm, bot, perft>>

\* Game::check_game_state
CheckGameState ==
    /\ fbm.pc = "idle"
    /\ last.op = "new"
    /\ \E r \in {check_game_state(board)} :
          /\ board' = r.board
          /\ last' = Returned("check_game_state", board, 0, 0, r.state, NoMove)
    /\ UNCHANGED <<made, entry, fbm, bot, perft>>

\* find_best_move(&mut moves, &mut move_generator, depth) up to its loops:
\* the caller generates the moves, the tablebase is asked when at most
\* seven pieces are left, the moves are sorted
FindBestMoveCall ==
    /\ fbm.pc = "idle"
    /\ last.op = "new"
    /\ \E gm \in {generate_moves(board)} :
         /\ gm.moves # <<>>
         /\ \E depth \in 1..MaxDepth :
            \E answer \in TablebaseAnswers(gm.moves) :
            \E tb \in {find_best_move_tablebase(gm.board, answer)} :
              IF tb.ok
              THEN /\ board' = tb.board
                   /\ fbm' = [Idle EXCEPT !.pc = "done", !.entry = board,
                                          !.moves = gm.moves, !.depth = depth,
                                          !.tablebase = TRUE, !.answer = answer,
                                          !.best_move = tb.mv, !.best_eval = tb.eval]
                   /\ last' = Returned("find_best_move", board, depth, tb.eval, "", tb.mv)
              ELSE \E sorted \in {sort_unstable_by_key(tb.board, gm.moves)} :
                   /\ board' = tb.board
                   /\ fbm' = [Idle EXCEPT !.pc = "loop", !.entry = board,
                                          !.moves = sorted, !.depth = depth,
                                          !.answer = answer,
                                          !.curr_depth = 0, !.i = 1, !.alpha = -INF,
                                          !.best_move = sorted[1], !.best_eval = -INF]
                   /\ UNCHANGED last
    /\ UNCHANGED <<made, entry, bot, perft>>

\* the loop over the depths that stays at its depth
next_curr_depth_same(curr_depth) == curr_depth

\* for curr_depth in 0..depth
next_curr_depth(curr_depth) == curr_depth + 1

\* one turn of the inner loop of find_best_move, the move of the loops to
\* the next root move or the next depth, and the return
FindBestMoveStep ==
    /\ fbm.pc = "loop"
    /\ \E mv \in {fbm.moves[fbm.i]} :
       \E r \in {search(move_piece(board, mv), fbm.curr_depth, -INF, -fbm.alpha)} :
       \E eval \in {neg(r.eval)} :
         /\ board' = unmake_move(r.board, mv).board
         /\ IF eval = INF
            THEN /\ fbm' = [fbm EXCEPT !.pc = "done", !.best_move = mv, !.best_eval = eval]
                 /\ last' = Returned("find_best_move", fbm.entry, fbm.depth, eval, "", mv)
            ELSE \E improved \in {eval > fbm.alpha} :
                 \E best_move \in {IF improved THEN mv ELSE fbm.best_move} :
                 \E best_eval \in {IF improved THEN eval ELSE fbm.best_eval} :
                 \E alpha \in {IF improved THEN eval ELSE fbm.alpha} :
                   IF fbm.i < Len(fbm.moves)
                   THEN /\ fbm' = [fbm EXCEPT !.i = fbm.i + 1, !.alpha = alpha,
                                              !.best_move = best_move,
                                              !.best_eval = best_eval]
                        /\ UNCHANGED last
                   ELSE IF next_curr_depth(fbm.curr_depth) < fbm.depth
                   THEN /\ fbm' = [fbm EXCEPT !.curr_depth = next_curr_depth(fbm.curr_depth),
                                              !.i = 1, !.alpha = -INF,
                                              !.best_move = best_move,
                                              !.best_eval = best_eval]
                        /\ UNCHANGED last
                   ELSE /\ fbm' = [fbm EXCEPT !.pc = "done", !.alpha = alpha,
                                              !.best_move = best_move,
                                              !.best_eval = best_eval]
                        /\ last' = Returned("find_best_move", fbm.entry, fbm.depth,
                                            best_eval, "", best_move)
    /\ UNCHANGED <<made, entry, bot, perft>>

\* generate_moves on the position, as every caller runs it first
GenerateMovesCall ==
    /\ fbm.pc = "idle"
    /\ last.op = "new"
    /\ board' = generate_moves(board).board
    /\ last' = Outcome("generate_moves", TRUE, "", board, NoMove)
    /\ UNCHANGED <<made, entry, fbm, bot, perft>>

NextSearch ==
    \/ GenerateMovesCall
    \/ SearchCall
    \/ SearchAllCapturesCall
    \/ CheckGameState
    \/ FindBestMoveCall
    \/ FindBestMoveStep

SpecSearch == InitSearch /\ [][NextSearch]_vars

\* find_best_move runs to its end once called: nothing else runs meanwhile.
\* This is WF_vars(FindBestMoveStep) written out: in the loop the step is
\* the one action that can run and it always can, so ENABLED of the step
\* is fbm.pc = "loop" and a step of the loop is a step that starts there.
SpecSearchFair ==
    SpecSearch /\ ([]<>(fbm.pc # "loop") \/ []<><<fbm.pc = "loop">>_vars)

-----------------------------------------------------------------------------
(* The UCI loop: bot.rs                                                    *)

MaxBotPly == 1

\* str::parse::<u128> on a token, a token being the sequence of its characters
parse_u128(token) ==
    LET digits == <<"0", "1", "2", "3", "4", "5", "6", "7", "8", "9">>
        digit(c) == {d \in 1..10 : digits[d] = c}
        value[i \in 0..Len(token)] ==
            IF i = 0 THEN 0
            ELSE 10 * value[i - 1] + (CHOOSE d \in digit(token[i]) : TRUE) - 1
    IN  IF token = <<>> \/ \E i \in 1..Len(token) : digit(token[i]) = {}
        THEN [ok |-> FALSE, value |-> 0]
        ELSE [ok |-> TRUE, value |-> value[Len(token)]]

\* the value after the first token `id` of a go command:
\* position(..) and then _go_command[index + 1].parse().unwrap()
go_option(args, id) ==
    LET found == {i \in 1..Len(args) : args[i] = id}
        index == CHOOSE i \in found : \A j \in found : i <= j
    IN  IF found = {} THEN [given |-> FALSE, aborted |-> FALSE, value |-> 0]
        ELSE IF index + 1 > Len(args) \/ ~parse_u128(args[index + 1]).ok
        THEN [given |-> TRUE, aborted |-> TRUE, value |-> 0]
        ELSE [given |-> TRUE, aborted |-> FALSE, value |-> parse_u128(args[index + 1]).value]

decide_move_time(b, time_left_on_clock) ==
    IF b.full_move_number < 10 THEN time_left_on_clock \div 60
    ELSE time_left_on_clock \div 30

\* choose_search_time_ms, where both options given abort the program
choose_search_time_ms(b, move_time, time_left_on_clock) ==
    CASE ~move_time.given /\ ~time_left_on_clock.given -> 3000
      [] move_time.given /\ ~time_left_on_clock.given -> move_time.value
      [] ~move_time.given /\ time_left_on_clock.given ->
            decide_move_time(b, time_left_on_clock.value)

\* what a handler returns to start_uci: Ok or the error, whether it aborted
\* or left the program, the bot's board, the lines it printed
Handled(ok, err, aborted, b, printed) ==
    [ok |-> ok, err |-> err, aborted |-> aborted, exited |-> FALSE, board |-> b,
     printed |-> printed]

\* handle_go_command from the return of find_best_move on; find_best_move
\* has printed the error of the tablebase
handle_go_found(b, tb, best_move) ==
    Handled(TRUE, "", FALSE, move_piece(b, best_move),
            (IF pieces_left(b) <= 7 /\ ~tb.ok THEN << <<tb.err>> >> ELSE <<>>)
                \o << <<"bestmove">> \o to_uci(best_move) >>)

\* handle_go_command once the two options are read: an option that does not
\* parse, both options given and find_best_move without a move abort
handle_go_timed(b, moves, move_time, time_left_on_clock, tb) ==
    IF \/ move_time.aborted
       \/ time_left_on_clock.aborted
       \/ move_time.given /\ time_left_on_clock.given
       \/ moves = <<>> /\ ~tb.ok  \* moves.get(0).expect(..) in find_best_move
    THEN Handled(TRUE, "", TRUE, b, <<>>)
    ELSE handle_go_found(
             b, tb,
             find_best_move_asked(
                 moves, tb,
                 choose_search_time_ms(b, move_time, time_left_on_clock)).mv)

\* handle_go_command once the moves are generated, tb being what
\* find_best_move gets from the tablebase
handle_go_generated(b, moves, args, tb) ==
    handle_go_timed(b, moves,
                    go_option(args, <<"m", "o", "v", "e", "t", "i", "m", "e">>),
                    go_option(args, IF b.to_move = White THEN <<"w", "t", "i", "m", "e">>
                                    ELSE <<"b", "t", "i", "m", "e">>),
                    tb)

handle_go_command(b, args, answer) ==
    handle_go_generated(b, generate_moves(b).moves, args,
                        find_best_move_tablebase(b, answer))

\* play_moves_on_board: try_from_uci(..).unwrap() and move_piece, move by move
RECURSIVE play_moves_on_board(_, _, _)

play_moves_resolved(res, b, moves, i) ==
    IF ~res.ok THEN Handled(TRUE, "", TRUE, b, <<>>)
    ELSE play_moves_on_board(move_piece(b, res.mv), moves, i + 1)

play_moves_on_board(b, moves, i) ==
    IF i > Len(moves) THEN Handled(TRUE, "", FALSE, b, <<>>)
    ELSE IF try_from_uci_aborts(moves[i]) THEN Handled(TRUE, "", TRUE, b, <<>>)
    ELSE play_moves_resolved(try_from_uci(moves[i], b), b, moves, i)

\* BoardBuilder::try_from_fen on the six fields of the command, which are
\* well formed and give a position, or are not
try_from_fen(fen) ==
    IF fen.well_formed THEN [ok |-> TRUE, err |-> "", board |-> fen.position]
    ELSE [ok |-> FALSE, err |-> "Invalid FEN", board |-> BoardDefault]

\* handle_position_command up to the moves: the board of startpos or of the
\* FEN, or the error
position_board(command) ==
    CASE command.kind = "startpos" -> [ok |-> TRUE, err |-> "", board |-> starting_position]
      [] command.kind = "fen" -> try_from_fen(command.fen)
      [] OTHER -> [ok |-> FALSE, err |-> "position command is in an unknown format",
                   board |-> BoardDefault]

\* a position command that plays the moves on the board the bot had
handle_position_set_kept(b, set, moves) ==
    IF set.ok THEN play_moves_on_board(b, moves, 1)
    ELSE Handled(FALSE, set.err, FALSE, b, <<>>)

handle_position_set(b, set, moves) ==
    IF set.ok THEN play_moves_on_board(set.board, moves, 1)
    ELSE Handled(FALSE, set.err, FALSE, b, <<>>)

handle_position_command(b, command) ==
    handle_position_set(b, position_board(command), command.moves)

process_commands(b, command, answer) ==
    CASE command.name = "uci" -> Handled(TRUE, "", FALSE, b, << <<"uciok">> >>)
      [] command.name = "isready" -> Handled(TRUE, "", FALSE, b, << <<"readyok">> >>)
      [] command.name = "position" -> handle_position_command(b, command)
      [] command.name = "go" -> handle_go_command(b, command.args, answer)
      [] command.name \in {"ucinewgame", "stop"} -> Handled(TRUE, "", FALSE, b, <<>>)
      [] command.name = "quit" -> [Handled(TRUE, "", FALSE, b, <<>>) EXCEPT !.exited = TRUE]
      [] OTHER -> Handled(FALSE, "unrecognized UCI command", FALSE, b, <<>>)

\* one line of input, split: the first token, and for position and go the rest
Command(name, kind, fen, moves, args) ==
    [name |-> name, kind |-> kind, fen |-> fen, moves |-> moves, args |-> args]

Fen(b) == [well_formed |-> TRUE, position |-> b]

MalformedFen == [well_formed |-> FALSE, position |-> BoardDefault]

\* the lines the loop is fed
Commands(b) ==
    LET plain(name) == Command(name, "", MalformedFen, <<>>, <<>>)
        position(kind, fen, moves) == Command("position", kind, fen, moves, <<>>)
        go(args) == Command("go", "", MalformedFen, <<>>, args)
        movetime == <<"m", "o", "v", "e", "t", "i", "m", "e">>
        wtime == <<"w", "t", "i", "m", "e">>
        btime == <<"b", "t", "i", "m", "e">>
        e2e4 == <<"e", "2", "e", "4">>
        e7e5 == <<"e", "7", "e", "5">>
        b7b8q == <<"b", "7", "b", "8", "q">>
    IN  { plain("uci"), plain("isready"), plain("ucinewgame"), plain("stop"),
          plain("quit"), plain("flip"),
          position("startpos", MalformedFen, <<>>),
          position("startpos", MalformedFen, <<e2e4>>),
          position("startpos", MalformedFen, <<e2e4, e2e4>>),
          position("startpos", MalformedFen, <<e2e4, e7e5>>),
          position("fen", Fen(PromotionPosition), <<b7b8q>>),
          position("startpos", MalformedFen, << <<"e", "2">> >>),
          position("fen", Fen(PromotionPosition), <<>>),
          position("fen", Fen(RookMatePosition), <<>>),
          position("fen", Fen(RookMatePosition), << <<"a", "8", "a", "1">> >>),
          position("fen", MalformedFen, <<>>),
          position("current", MalformedFen, <<>>) }
        \cup (IF Len(b.board_state_history) < MaxBotPly
              THEN { go(<<movetime, <<"1">> >>), go(<<movetime, <<"1", "s">> >>),
                     go(<<movetime>>), go(<<wtime, <<"6", "0">>, btime, <<"6", "0">> >>),
                     go(<<movetime, <<"1">>, wtime, <<"6", "0">>, btime, <<"6", "0">> >>) }
              ELSE {})

\* the tablebase server when the loop runs: out of reach
NoTablebase == [ok |-> FALSE, moves |-> <<>>]

\* one turn of the loop of start_uci: the input is logged and handled, what
\* is printed is logged too, an error is logged; an abort or quit ends it
StartUci ==
    /\ bot.alive
    /\ last.op # "try_from_uci"
    /\ \E command \in Commands(board) :
       \E res \in {process_commands(board, command, NoTablebase)} :
          /\ board' = res.board
          /\ bot' = [alive |-> ~res.aborted /\ ~res.exited,
                     input |-> command,
                     printed |-> res.printed,
                     logged |-> <<command>> \o res.printed \o
                                (IF res.ok \/ res.aborted THEN <<>>
                                 ELSE << <<"Talia encountered a critical error">>,
                                         <<res.err>> >>)]
          /\ last' = [Outcome("process_commands", res.ok, res.err, board, NoMove)
                         EXCEPT !.state = IF res.aborted THEN "aborted"
                                          ELSE IF res.exited THEN "exited" ELSE "handled"]
    /\ UNCHANGED <<made, entry, fbm, perft>>

\* the strings Move::try_from_uci is given: the moves as they print, the
\* same without and with a promotion letter, and strings that name no move
UciStrings(moves) ==
    {to_uci(moves[i]) : i \in 1..Len(moves)}
        \cup {SubSeq(to_uci(moves[i]), 1, 4) : i \in 1..Len(moves)}
        \cup {SubSeq(to_uci(moves[i]), 1, 4) \o <<"q">> : i \in 1..Len(moves)}
        \cup { <<"a", "1", "a", "1">>, <<"e", "2", "e", "4", "k">>, <<"e", "2">>,
               <<"i", "9", "e", "4">>, <<"e", "2", "e", "4", "q", "q">> }

\* Move::try_from_uci(uci, &mut move_generator) on a clone of the bot's board,
\* as play_moves_on_board calls it
TryFromUci ==
    /\ bot.alive
    /\ last.op # "try_from_uci"
    /\ \E uci \in UciStrings(generate_moves(board).moves) :
          IF try_from_uci_aborts(uci)
          THEN /\ last' = [Outcome("try_from_uci", FALSE, "", board, NoMove)
                              EXCEPT !.state = "aborted"] @@ [uci |-> uci]
               /\ UNCHANGED board
          ELSE \E res \in {try_from_uci(uci, board)} :
               /\ board' = res.board
               /\ last' = Outcome("try_from_uci", res.ok, res.err, board, res.mv)
                              @@ [uci |-> uci]
    /\ UNCHANGED <<made, entry, fbm, bot, perft>>

\* Bot::new
InitUci ==
    /\ board = starting_position
    /\ made = <<>>
    /\ entry = <<>>
    /\ last = Outcome("new", TRUE, "", board, NoMove)
    /\ fbm = Idle
    /\ bot = BotNew
    /\ perft = <<>>

NextUci ==
    \/ StartUci
    \/ TryFromUci

SpecUci == InitUci /\ [][NextUci]_vars

-----------------------------------------------------------------------------
(* The tablebase query on the answers of the server                        *)

MaxTablebaseMoves == 3

\* the dtm values of an answer: none, or a number of plies
TablebaseDtms == {<<>>, <<1>>, <<2>>}

\* the lists of at most n tablebase moves the server may send for a
\* position: its first legal moves, each in any category with any dtm
TablebaseLists(moves, n) ==
    UNION {{[k \in 1..len |-> TablebaseMove(to_uci(moves[k]), cat[k], dtm[k])] :
               cat \in [1..len -> {"win", "draw", "loss"}],
               dtm \in [1..len -> TablebaseDtms]} : len \in 1..n}

InitTablebase ==
    /\ board = RookMatePosition
    /\ made = <<>>
    /\ entry = <<>>
    /\ last = Outcome("new", TRUE, "", board, NoMove)
    /\ \E moves \in TablebaseLists(generate_moves(board).moves, MaxTablebaseMoves) :
          fbm = [Idle EXCEPT !.answer = [ok |-> TRUE, moves |-> moves]]
    /\ bot = BotNew
    /\ perft = <<>>

\* query_tablebase(board) on the answer of the server
QueryTablebase ==
    /\ last.op = "new"
    /\ fbm.answer.ok
    /\ \E r \in {query_tablebase(board, fbm.answer)} :
          /\ board' = r.board
          /\ last' = [Outcome("query_tablebase", r.ok, r.err, board, r.mv)
                         EXCEPT !.value = r.eval]
    /\ UNCHANGED <<made, entry, fbm, bot, perft>>

NextTablebase == QueryTablebase

SpecTablebase == InitTablebase /\ [][NextTablebase]_vars

-----------------------------------------------------------------------------
(* The move ordering on the legal moves in any order                       *)

\* a list with the moves at i and j exchanged
Exchanged(moves, i, j) ==
    [k \in 1..Len(moves) |-> IF k = i THEN moves[j] ELSE IF k = j THEN moves[i] ELSE moves[k]]

InitSort ==
    /\ board \in SearchPositions \cup {starting_position}
    /\ made = <<>>
    /\ entry = <<>>
    /\ last = Outcome("new", TRUE, "", board, NoMove)
    /\ fbm = Idle
    /\ bot = BotNew
    /\ perft = <<>>

\* moves.sort_unstable_by_key(|mv| guess_move_score(move_generator, mv)) on
\* the legal moves of the position, as generated or with two of them
\* exchanged
SortMoves ==
    /\ last.op = "new"
    /\ \E gm \in {generate_moves(board)} :
         \E i \in 1..Len(gm.moves) :
          \E j \in i..Len(gm.moves) :
           \E moves \in {Exchanged(gm.moves, i, j)} :
             /\ board' = gm.board
             /\ last' = Outcome("sort_unstable_by_key", TRUE, "", board, NoMove)
                           @@ [moves |-> moves,
                               sorted |-> sort_unstable_by_key(gm.board, moves)]
    /\ UNCHANGED <<made, entry, fbm, bot, perft>>

NextSort == SortMoves

SpecSort == InitSort /\ [][NextSort]_vars

-----------------------------------------------------------------------------
(* The evaluator on boards of every piece on every square                  *)

\* the two kings apart, the white king on any square
WhiteKingAt(s) == <<s, King, White>>
BlackKingAt(s) == <<s, King, Black>>
FarCorner(s, left, right) == IF s % 8 < 4 THEN right ELSE left

\* the boards evaluate is given: the seeds, the two kings with one of them
\* on any square, and the two kings at home with one more piece on any
\* other square (a pawn on the ranks 2 to 7); either side to move
EvaluateLayouts ==
    {<<WhiteKingAt(s), BlackKingAt(FarCorner(s, A8, H8))>> : s \in Squares}
      \cup {<<WhiteKingAt(FarCorner(s, A1, H1)), BlackKingAt(s)>> : s \in Squares}
      \cup {<<WhiteKingAt(E1), BlackKingAt(E8), <<s, piece, color>> >> :
               s \in Squares \ {E1, E8}, piece \in {Knight, Bishop, Rook, Queen},
               color \in {White, Black}}
      \cup {<<WhiteKingAt(E1), BlackKingAt(E8), <<s, Pawn, color>> >> :
               s \in 8..55, color \in {White, Black}}

EvaluatePositions ==
    Positions \cup SearchPositions \cup {starting_position}
      \cup {from_fen(layout, to_move, {}, 0, 1) :
               layout \in EvaluateLayouts, to_move \in {White, Black}}

InitEvaluate ==
    /\ board \in EvaluatePositions
    /\ made = <<>>
    /\ entry = <<>>
    /\ last = Outcome("new", TRUE, "", board, NoMove)
    /\ fbm = Idle
    /\ bot = BotNew
    /\ perft = <<>>

\* evaluate(&move_generator)
Evaluate ==
    /\ last.op = "new"
    /\ last' = Returned("evaluate", board, 0, evaluate(board), "", NoMove)
    /\ UNCHANGED <<board, made, entry, fbm, bot, perft>>

NextEvaluate == Evaluate

SpecEvaluate == InitEvaluate /\ [][NextEvaluate]_vars

-----------------------------------------------------------------------------
(* perft_test: the count of the move sequences of a length                 *)

MaxPerftDepth == 2

\* r3k2r/p1ppqpb1/bn2pnp1/3PN3/1p2P3/2N2Q1p/PPPBBPPP/R3K2R w KQkq - 0 1
KiwipetePosition ==
    from_fen(<< <<A1, Rook, White>>, <<E1, King, White>>, <<H1, Rook, White>>,
                <<At(1, 2), Pawn, White>>, <<At(2, 2), Pawn, White>>,
                <<At(3, 2), Pawn, White>>, <<At(4, 2), Bishop, White>>,
                <<At(5, 2), Bishop, White>>, <<At(6, 2), Pawn, White>>,
                <<At(7, 2), Pawn, White>>, <<At(8, 2), Pawn, White>>,
                <<At(3, 3), Knight, White>>, <<At(6, 3), Queen, White>>,
                <<At(8, 3), Pawn, Black>>,
                <<At(2, 4), Pawn, Black>>, <<At(5, 4), Pawn, White>>,
                <<At(4, 5), Pawn, White>>, <<At(5, 5), Knight, White>>,
                <<At(1, 6), Bishop, Black>>, <<At(2, 6), Knight, Black>>,
                <<At(5, 6), Pawn, Black>>, <<At(6, 6), Knight, Black>>,
                <<At(7, 6), Pawn, Black>>,
                <<At(1, 7), Pawn, Black>>, <<At(3, 7), Pawn, Black>>,
                <<At(4, 7), Pawn, Black>>, <<At(5, 7), Queen, Black>>,
                <<At(6, 7), Pawn, Black>>, <<At(7, 7), Bishop, Black>>,
                <<A8, Rook, Black>>, <<E8, King, Black>>, <<H8, Rook, Black>> >>,
             White, {"K", "Q", "k", "q"}, 0, 1)

\* the frame of one perft_test(depth) that entered its loop: its moves, the
\* index of the move at hand, num, and where it stands: before move_piece
\* ("loop"), after it ("moved"), or before unmake_move ("returned")
PerftFrame(depth, moves) ==
    [depth |-> depth, moves |-> moves, i |-> 1, num |-> 0, pc |-> "loop"]

\* the frame were `num = ...` written for `num += ...`
perft_returned_assigned(frame, value) ==
    [frame EXCEPT !.num = value, !.pc = "returned"]

\* a frame after the perft_test it called, or skipped, gave `value`; num
\* is a u32 and the counts here stay far below its width
perft_returned(frame, value) ==
    [frame EXCEPT !.num = frame.num + value, !.pc = "returned"]

InitPerft ==
    /\ board \in {starting_position, KiwipetePosition}
    /\ made = <<>>
    /\ entry = <<>>
    /\ last = Outcome("new", TRUE, "", board, NoMove)
    /\ fbm = Idle
    /\ bot = BotNew
    /\ perft = <<>>

\* move_generator.perft_test(depth) is called: depth 0 returns 1, depth 1
\* the number of the generated moves, a larger depth enters the loop
PerftCall ==
    /\ last.op = "new"
    /\ perft = <<>>
    /\ \E depth \in 0..MaxPerftDepth :
          IF depth = 0
          THEN /\ last' = Returned("perft_test", board, depth, 1, "", NoMove)
               /\ UNCHANGED <<board, perft>>
          ELSE \E gm \in {generate_moves(board)} :
               /\ board' = gm.board
               /\ IF depth = 1
                  THEN /\ last' = Returned("perft_test", board, depth, Len(gm.moves),
                                           "", NoMove)
                       /\ UNCHANGED perft
                  ELSE /\ perft' = <<PerftFrame(depth, gm.moves)>>
                       /\ UNCHANGED last
    /\ UNCHANGED <<made, entry, fbm, bot>>

\* self.board.move_piece(mv) in the loop of the innermost perft_test
PerftMovePiece ==
    /\ perft # <<>>
    /\ LET frame == perft[Len(perft)]
       IN  /\ frame.pc = "loop"
           /\ frame.i <= Len(frame.moves)
           /\ board' = move_piece(board, frame.moves[frame.i])
           /\ perft' = [perft EXCEPT ![Len(perft)].pc = "moved"]
    /\ UNCHANGED <<made, entry, last, fbm, bot>>

\* if !is_in_check(to_move.opposite_color()) { num += perft_test(depth - 1) }:
\* the call at depth 1 returns the number of the generated moves, a larger
\* depth enters its own loop
PerftRecurse ==
    /\ perft # <<>>
    /\ LET frame == perft[Len(perft)]
       IN  /\ frame.pc = "moved"
           /\ IF is_in_check(board, opposite_color(board.to_move))
              THEN /\ perft' = [perft EXCEPT ![Len(perft)] = perft_returned(frame, 0)]
                   /\ UNCHANGED board
              ELSE \E gm \in {generate_moves(board)} :
                   /\ board' = gm.board
                   /\ perft' = IF frame.depth - 1 = 1
                               THEN [perft EXCEPT ![Len(perft)] =
                                        perft_returned(frame, Len(gm.moves))]
                               ELSE Append([perft EXCEPT ![Len(perft)].pc = "called"],
                                           PerftFrame(frame.depth - 1, gm.moves))
    /\ UNCHANGED <<made, entry, last, fbm, bot>>

\* self.board.unmake_move(mv).unwrap() and the next turn of the loop
PerftUnmake ==
    /\ perft # <<>>
    /\ LET frame == perft[Len(perft)]
       IN  /\ frame.pc = "returned"
           /\ \E res \in {unmake_move(board, frame.moves[frame.i])} :
                 /\ board' = res.board
                 /\ IF res.ok
                    THEN /\ perft' = [perft EXCEPT ![Len(perft)].i = frame.i + 1,
                                                   ![Len(perft)].pc = "loop"]
                         /\ UNCHANGED last
                    ELSE /\ perft' = <<>>
                         /\ last' = [Outcome("perft_test", FALSE, res.err, last.before,
                                             NoMove) EXCEPT !.state = "aborted"]
    /\ UNCHANGED <<made, entry, fbm, bot>>

\* the loop of the innermost perft_test is over: num is returned, to the
\* perft_test that called it or to the caller of the outermost
PerftReturn ==
    /\ perft # <<>>
    /\ LET frame == perft[Len(perft)]
       IN  /\ frame.pc = "loop"
           /\ frame.i > Len(frame.moves)
           /\ IF Len(perft) = 1
              THEN /\ perft' = <<>>
                   /\ last' = Returned("perft_test", last.before, frame.depth, frame.num,
                                       "", NoMove)
              ELSE /\ perft' = [SubSeq(perft, 1, Len(perft) - 1) EXCEPT
                                   ![Len(perft) - 1] =
                                       perft_returned(perft[Len(perft) - 1], frame.num)]
                   /\ UNCHANGED last
    /\ UNCHANGED <<board, made, entry, fbm, bot>>

NextPerft ==
    \/ PerftCall
    \/ PerftMovePiece
    \/ PerftRecurse
    \/ PerftUnmake
    \/ PerftReturn

SpecPerft == InitPerft /\ [][NextPerft]_vars

-----------------------------------------------------------------------------
(* FEN: Board::to_fen and BoardBuilder::try_from_fen on strings.  A string *)
(* is the sequence of its characters.                                      *)

Digits == <<"0", "1", "2", "3", "4", "5", "6", "7", "8", "9">>

digit_value(c) == (CHOOSE d \in 1..10 : Digits[d] = c) - 1

\* u32::to_string
RECURSIVE to_string(_)
to_string(n) ==
    IF n < 10 THEN <<Digits[n + 1]>>
    ELSE to_string(n \div 10) \o <<Digits[(n % 10) + 1]>>

RECURSIVE decimal(_, _, _)
decimal(digits, i, acc) ==
    IF i > Len(digits) THEN acc
    ELSE decimal(digits, i + 1, acc * 10 + digit_value(digits[i]))

\* str::parse::<u32>: an optional + and one digit or more; the strings of
\* the model hold at most nine digits, which a u32 holds
parse_u32(field) ==
    LET digits == IF field # <<>> /\ field[1] = "+" THEN Tail(field) ELSE field
    IN  IF \/ digits = <<>>
           \/ Len(digits) > 9
           \/ \E i \in 1..Len(digits) : \A d \in 1..10 : Digits[d] # digits[i]
        THEN [ok |-> FALSE, value |-> 0]
        ELSE [ok |-> TRUE, value |-> decimal(digits, 1, 0)]

\* str::split_whitespace
RECURSIVE split_whitespace(_, _, _)
split_whitespace(s, i, field) ==
    IF i > Len(s) THEN (IF field = <<>> THEN <<>> ELSE <<field>>)
    ELSE IF s[i] = " "
         THEN (IF field = <<>> THEN <<>> ELSE <<field>>) \o split_whitespace(s, i + 1, <<>>)
         ELSE split_whitespace(s, i + 1, Append(field, s[i]))

to_symbol(piece, color) ==
    CASE piece = Pawn /\ color = White -> "P"
      [] piece = Pawn /\ color = Black -> "p"
      [] piece = Knight /\ color = White -> "N"
      [] piece = Knight /\ color = Black -> "n"
      [] piece = Bishop /\ color = White -> "B"
      [] piece = Bishop /\ color = Black -> "b"
      [] piece = Rook /\ color = White -> "R"
      [] piece = Rook /\ color = Black -> "r"
      [] piece = Queen /\ color = White -> "Q"
      [] piece = Queen /\ color = Black -> "q"
      [] piece = King /\ color = White -> "K"
      [] piece = King /\ color = Black -> "k"

\* the match on piece_char in try_from_fen
piece_of_symbol(piece_char) ==
    CASE piece_char = "P" -> <<Pawn, White>>
      [] piece_char = "p" -> <<Pawn, Black>>
      [] piece_char = "N" -> <<Knight, White>>
      [] piece_char = "n" -> <<Knight, Black>>
      [] piece_char = "B" -> <<Bishop, White>>
      [] piece_char = "b" -> <<Bishop, Black>>
      [] piece_char = "R" -> <<Rook, White>>
      [] piece_char = "r" -> <<Rook, Black>>
      [] piece_char = "Q" -> <<Queen, White>>
      [] piece_char = "q" -> <<Queen, Black>>
      [] piece_char = "K" -> <<King, White>>
      [] piece_char = "k" -> <<King, Black>>
      [] OTHER -> <<None, None>>

\* the result of try_from_fen: Ok(board), Err(err), or the program aborted
\* on an index out of range
FenParsed(ok, err, aborted, b) == [ok |-> ok, err |-> err, aborted |-> aborted, board |-> b]

\* the loop over the characters of the layout field; rank is a usize that
\* wraps below 0, and so does rank * 8 + file, which is this integer sum
RECURSIVE fen_layout(_, _, _, _, _)
fen_layout(b, symbols, i, file, rank) ==
    IF i > Len(symbols) THEN FenParsed(TRUE, "", FALSE, b)
    ELSE IF symbols[i] = "/" THEN fen_layout(b, symbols, i + 1, 0, rank - 1)
    ELSE IF symbols[i] \in {"1", "2", "3", "4", "5", "6", "7", "8"}
         THEN fen_layout(b, symbols, i + 1, file + digit_value(symbols[i]), rank)
    ELSE IF piece_of_symbol(symbols[i])[1] = None
         THEN FenParsed(FALSE, "invalid piece symbol in FEN", FALSE, b)
    ELSE IF rank * 8 + file \notin Squares THEN FenParsed(FALSE, "", TRUE, b)
    ELSE fen_layout(put_piece(b, rank * 8 + file, piece_of_symbol(symbols[i])[1],
                              piece_of_symbol(symbols[i])[2]),
                    symbols, i + 1, file + 1, rank)

parse_en_passant_square(en_passant_sqaure_field) ==
    IF en_passant_sqaure_field = <<"-">> THEN [ok |-> TRUE, square |-> <<>>]
    ELSE IF Len(en_passant_sqaure_field) # 2 THEN [ok |-> FALSE, square |-> <<>>]
    ELSE IF ~from_algebraic_notation(en_passant_sqaure_field).ok
         THEN [ok |-> FALSE, square |-> <<>>]
    ELSE [ok |-> TRUE, square |-> <<from_algebraic_notation(en_passant_sqaure_field).square>>]

\* the fields after the layout, in the order the code reads them
fen_fields(b, fen_string_fields) ==
    LET n == Len(fen_string_fields)
        castling_rights == {fen_string_fields[3][i] : i \in 1..Len(fen_string_fields[3])}
        half_move_clock == parse_u32(fen_string_fields[5])
        full_move_number == parse_u32(fen_string_fields[6])
        en_passant_square == parse_en_passant_square(fen_string_fields[4])
    IN  IF n < 2 THEN FenParsed(FALSE, "", TRUE, b)
        ELSE IF fen_string_fields[2] \notin {<<"w">>, <<"b">>}
             THEN FenParsed(FALSE, "failed to parse active board color, must be 'b' or 'w'.",
                            FALSE, b)
        ELSE IF n < 3 THEN FenParsed(FALSE, "", TRUE, b)
        ELSE IF ~(castling_rights \subseteq {"K", "Q", "k", "q", "-"})
             THEN FenParsed(FALSE, "invalid castling rights in fen", FALSE, b)
        ELSE IF n < 5 THEN FenParsed(FALSE, "", TRUE, b)
        ELSE IF ~half_move_clock.ok
             THEN FenParsed(FALSE, "failed to parse half move clock from fen", FALSE, b)
        ELSE IF n < 6 THEN FenParsed(FALSE, "", TRUE, b)
        ELSE IF ~full_move_number.ok
             THEN FenParsed(FALSE, "failed to parse full move number from fen", FALSE, b)
        ELSE IF ~en_passant_square.ok
             THEN FenParsed(FALSE, "invalid square", FALSE, b)
        ELSE FenParsed(TRUE, "", FALSE,
                 [ b EXCEPT
                     !.to_move = IF fen_string_fields[2] = <<"w">> THEN White ELSE Black,
                     !.full_move_number = full_move_number.value,
                     !.board_state.en_passant_square = en_passant_square.square,
                     !.board_state.half_move_clock = half_move_clock.value,
                     !.board_state.white_kingside_castling_priviledge = "K" \in castling_rights,
                     !.board_state.black_kingside_castling_priviledge = "k" \in castling_rights,
                     !.board_state.white_queenside_castling_priviledge = "Q" \in castling_rights,
                     !.board_state.black_queenside_castling_priviledge = "q" \in castling_rights ])

fen_laid_out(laid, fen_string_fields) ==
    IF ~laid.ok THEN laid ELSE fen_fields(laid.board, fen_string_fields)

\* BoardBuilder::try_from_fen(fen) on the characters of fen
try_from_fen_str(fen) ==
    LET fen_string_fields == split_whitespace(fen, 1, <<>>)
    IN  IF fen_string_fields = <<>> THEN FenParsed(FALSE, "", TRUE, BoardDefault)
        ELSE fen_laid_out(fen_layout(BoardDefault, fen_string_fields[1], 1, 0, 7),
                          fen_string_fields)

RECURSIVE to_fen_rank(_, _, _, _)
to_fen_rank(b, rank, file, empty_squares) ==
    IF file > 7
    THEN (IF empty_squares > 0 THEN to_string(empty_squares) ELSE <<>>)
    ELSE IF b.squares[rank * 8 + file] # None /\ b.colors[rank * 8 + file] # None
         THEN (IF empty_squares > 0 THEN to_string(empty_squares) ELSE <<>>)
                  \o <<to_symbol(b.squares[rank * 8 + file], b.colors[rank * 8 + file])>>
                  \o to_fen_rank(b, rank, file + 1, 0)
         ELSE to_fen_rank(b, rank, file + 1, empty_squares + 1)

RECURSIVE to_fen_layout(_, _)
to_fen_layout(b, rank) ==
    to_fen_rank(b, rank, 0, 0)
        \o (IF rank > 0 THEN <<"/">> \o to_fen_layout(b, rank - 1) ELSE <<>>)

to_fen_castling(b) ==
    LET s == b.board_state
    IN  (IF s.white_kingside_castling_priviledge THEN <<"K">> ELSE <<>>)
        \o (IF s.white_queenside_castling_priviledge THEN <<"Q">> ELSE <<>>)
        \o (IF s.black_kingside_castling_priviledge THEN <<"k">> ELSE <<>>)
        \o (IF s.black_queenside_castling_priviledge THEN <<"q">> ELSE <<>>)
        \o (IF ~(\/ s.white_kingside_castling_priviledge
                 \/ s.white_queenside_castling_priviledge
                 \/ s.black_kingside_castling_priviledge
                 \/ s.black_queenside_castling_priviledge)
            THEN <<"-">> ELSE <<>>)

\* square_names[square]
square_names(square) ==
    << <<"a", "b", "c", "d", "e", "f", "g", "h">>[(square % 8) + 1],
       Digits[(square \div 8) + 2] >>

\* the field were it written only when a pawn of the side to move stands
\* beside the square the double push passed
to_fen_en_passant_capturable(b) ==
    LET ep == b.board_state.en_passant_square
        behind == IF b.to_move = White THEN ep[1] - 8 ELSE ep[1] + 8
    IN  IF ep = <<>> THEN <<"-">>
        ELSE IF \E s \in {behind - 1, behind + 1} \cap Squares :
                    /\ s \div 8 = behind \div 8
                    /\ is_piece_at_square(b, s, Pawn, b.to_move)
             THEN square_names(ep[1])
        ELSE <<"-">>

to_fen_en_passant(b) ==
    IF b.board_state.en_passant_square = <<>> THEN <<"-">>
    ELSE square_names(b.board_state.en_passant_square[1])

to_fen(b) ==
    to_fen_layout(b, 7)
        \o <<" ">> \o (IF b.to_move = White THEN <<"w">> ELSE <<"b">>)
        \o <<" ">> \o to_fen_castling(b)
        \o <<" ">> \o to_fen_en_passant(b)
        \o <<" ">> \o to_string(b.board_state.half_move_clock)
        \o <<" ">> \o to_string(b.full_move_number)

\* rnbqkbnr/pppppppp/8/8/8/8/PPPPPPPP/RNBQKBNR
StartLayout ==
    <<"r", "n", "b", "q", "k", "b", "n", "r", "/", "p", "p", "p", "p", "p",
      "p", "p", "p", "/", "8", "/", "8", "/", "8", "/", "8", "/", "P", "P",
      "P", "P", "P", "P", "P", "P", "/", "R", "N", "B", "Q", "K", "B", "N",
      "R">>

\* rnbqkbnr/pppppppp/8/8/4P3/8/PPPP1PPP/RNBQKBNR
KingPawnLayout ==
    <<"r", "n", "b", "q", "k", "b", "n", "r", "/", "p", "p", "p", "p", "p",
      "p", "p", "p", "/", "8", "/", "8", "/", "4", "P", "3", "/", "8", "/",
      "P", "P", "P", "P", "1", "P", "P", "P", "/", "R", "N", "B", "Q", "K",
      "B", "N", "R">>

\* rnbqkbnr/ppp1pppp/8/8/3pP3/8/PPPP1PPP/RNBQKBNR
CapturableLayout ==
    <<"r", "n", "b", "q", "k", "b", "n", "r", "/", "p", "p", "p", "1", "p",
      "p", "p", "p", "/", "8", "/", "8", "/", "3", "p", "P", "3", "/", "8",
      "/", "P", "P", "P", "P", "1", "P", "P", "P", "/", "R", "N", "B", "Q",
      "K", "B", "N", "R">>

\* rnbqkbnr/ppp1pppp/8/3p4/8/8/PPPPPPPP/RNBQKBNR
QueenPawnLayout ==
    <<"r", "n", "b", "q", "k", "b", "n", "r", "/", "p", "p", "p", "1", "p",
      "p", "p", "p", "/", "8", "/", "3", "p", "4", "/", "8", "/", "8", "/",
      "P", "P", "P", "P", "P", "P", "P", "P", "/", "R", "N", "B", "Q", "K",
      "B", "N", "R">>

\* r3k2r/p1ppqpb1/bn2pnp1/3PN3/1p2P3/2N2Q1p/PPPBBPPP/R3K2R
KiwipeteLayout ==
    <<"r", "3", "k", "2", "r", "/", "p", "1", "p", "p", "q", "p", "b", "1",
      "/", "b", "n", "2", "p", "n", "p", "1", "/", "3", "P", "N", "3", "/",
      "1", "p", "2", "P", "3", "/", "2", "N", "2", "Q", "1", "p", "/", "P",
      "P", "P", "B", "B", "P", "P", "P", "/", "R", "3", "K", "2", "R">>

\* 4k3/8/8/8/8/8/8/4K3
KingsLayout ==
    <<"4", "k", "3", "/", "8", "/", "8", "/", "8", "/", "8", "/", "8", "/",
      "8", "/", "4", "K", "3">>

\* 8/8/8/8/8/8/8/8
EmptyLayout ==
    <<"8", "/", "8", "/", "8", "/", "8", "/", "8", "/", "8", "/", "8", "/",
      "8">>

FenLayouts ==
    {StartLayout, KingPawnLayout, CapturableLayout, QueenPawnLayout, KiwipeteLayout,
     KingsLayout, EmptyLayout}

\* the castling fields in the order K Q k q, or -
FenCastlings ==
    { IF rights = {} THEN <<"-">>
      ELSE SelectSeq(<<"K", "Q", "k", "q">>, LAMBDA c : c \in rights) :
        rights \in SUBSET {"K", "Q", "k", "q"} }

FenEnPassants == {<<"-">>, <<"e", "3">>, <<"d", "6">>}

FenClocks == {0, 7, 100}

FenMoveNumbers == {1, 10, 128}

\* the FEN strings given to try_from_fen
FenStrings ==
    { layout \o <<" ">> \o side \o <<" ">> \o castling \o <<" ">> \o en_passant
          \o <<" ">> \o to_string(clock) \o <<" ">> \o to_string(number) :
        layout \in FenLayouts, side \in {<<"w">>, <<"b">>}, castling \in FenCastlings,
        en_passant \in FenEnPassants, clock \in FenClocks, number \in FenMoveNumbers }

InitFen ==
    /\ board = BoardDefault
    /\ made = <<>>
    /\ entry = <<>>
    /\ last = Outcome("new", TRUE, "", board, NoMove)
    /\ fbm = Idle
    /\ bot = BotNew
    /\ perft = <<>>

\* BoardBuilder::try_from_fen(fen)
TryFromFen ==
    /\ last.op = "new"
    /\ \E fen \in FenStrings :
       \E res \in {try_from_fen_str(fen)} :
          /\ board' = IF res.ok THEN res.board ELSE board
          /\ last' = [Outcome("try_from_fen", res.ok, res.err, board, NoMove)
                         EXCEPT !.state = IF res.aborted THEN "aborted" ELSE ""]
                         @@ [fen |-> fen]
    /\ UNCHANGED <<made, entry, fbm, bot, perft>>

\* board.to_fen()
ToFen ==
    /\ last.op = "try_from_fen"
    /\ last.ok
    /\ last' = Outcome("to_fen", TRUE, "", board, NoMove)
                   @@ [fen |-> last.fen, written |-> to_fen(board)]
    /\ UNCHANGED <<board, made, entry, fbm, bot, perft>>

NextFen ==
    \/ TryFromFen
    \/ ToFen

SpecFen == InitFen /\ [][NextFen]_vars

-----------------------------------------------------------------------------
(* move_piece given an EnPassantCapture by a caller                        *)

\* the diagonal squares in front of a pawn
pawn_diagonals(start, color) ==
    {t \in Squares : /\ t \div 8 = (start \div 8) + (IF color = White THEN 1 ELSE -1)
                     /\ Abs((t % 8) - (start % 8)) = 1}

\* board.move_piece(&mv) with mv an EnPassantCapture of a pawn of the side to
\* move to the en-passant square, or to a diagonal square when none is set
MovePieceEnPassant ==
    /\ fbm.pc = "idle"
    /\ last.state # "aborted"
    /\ Len(made) < MaxPly
    /\ \E start \in Squares :
       \E target \in pawn_diagonals(start, board.to_move) :
       \E mv \in {Move(start, target, EnPassantCapture)} :
          /\ is_piece_at_square(board, start, Pawn, board.to_move)
          /\ board.squares[target] = None
          /\ board.board_state.en_passant_square \in {<<>>, <<target>>}
          /\ IF move_piece_aborts(board, mv)
             THEN /\ last' = [Outcome("move_piece", FALSE, "illegal en passant move played",
                                      board, mv) EXCEPT !.state = "aborted"]
                  /\ UNCHANGED <<board, made, entry>>
             ELSE /\ board' = move_piece(board, mv)
                  /\ made' = Append(made, mv)
                  /\ entry' = Append(entry, board)
                  /\ last' = Outcome("move_piece", TRUE, "", board, mv)
    /\ UNCHANGED <<fbm, bot, perft>>

\* 4k3/8/8/8/3p4/8/4P3/4K3 w - - 0 1 : after e2e4 Black captures on e3
BlackEnPassantPosition ==
    from_fen(<< <<E1, King, White>>, <<At(5, 2), Pawn, White>>,
                <<At(4, 4), Pawn, Black>>, <<E8, King, Black>> >>,
             White, {}, 0, 1)

InitEnPassant ==
    /\ board \in Positions \cup {BlackEnPassantPosition}
    /\ made = <<>>
    /\ entry = <<>>
    /\ last = Outcome("new", TRUE, "", board, NoMove)
    /\ fbm = Idle
    /\ bot = BotNew
    /\ perft = <<>>

NextEnPassant ==
    \/ MovePieceEnPassant
    \/ last.state # "aborted" /\ MovePiece
    \/ last.state # "aborted" /\ UnmakeMove

SpecEnPassant == InitEnPassant /\ [][NextEnPassant]_vars

-----------------------------------------------------------------------------
(* generate_pseudo_legal_moves on boards of every piece on every square    *)
(* and of a pawn with every neighbourhood                                  *)

\* a pawn of `color` on s; a knight of the colour ahead1 on the square ahead
\* and one of ahead2 on the second square ahead; on each diagonal square
\* nothing, an enemy rook, an own rook, or the en-passant square with the
\* enemy pawn that has just passed it (on the fifth rank of the pawn only)
PawnLayout(s, color, ahead1, ahead2, left, right) ==
    LET dir == IF color = White THEN 8 ELSE -8
        enemy == opposite_color(color)
        fifth == s \div 8 = (IF color = White THEN 4 ELSE 3)
        l == IF left = "ep" /\ ~fifth THEN "empty" ELSE left
        r == IF right = "ep" /\ (~fifth \/ l = "ep") THEN "empty" ELSE right
        diagonal(d, on_board, what) ==
            IF ~on_board \/ what = "empty" THEN <<>>
            ELSE IF what = "enemy" THEN << <<d, Rook, enemy>> >>
            ELSE IF what = "own" THEN << <<d, Rook, color>> >>
            ELSE << <<d - dir, Pawn, enemy>> >>
        ep == IF l = "ep" /\ s % 8 > 0 THEN <<s + dir - 1>>
              ELSE IF r = "ep" /\ s % 8 < 7 THEN <<s + dir + 1>>
              ELSE <<>>
        list == << <<s, Pawn, color>> >>
                  \o (IF ahead1 = None THEN <<>> ELSE << <<s + dir, Knight, ahead1>> >>)
                  \o (IF ahead2 = None \/ s + 2 * dir \notin Squares THEN <<>>
                      ELSE << <<s + 2 * dir, Knight, ahead2>> >>)
                  \o diagonal(s + dir - 1, s % 8 > 0, l)
                  \o diagonal(s + dir + 1, s % 8 < 7, r)
    IN  [from_fen(list, color, {}, 0, 1) EXCEPT !.board_state.en_passant_square = ep]

PawnPositions ==
    { PawnLayout(s, color, ahead1, ahead2, left, right) :
        s \in 8..55, color \in {White, Black}, ahead1 \in {None, White, Black},
        ahead2 \in {None, Black},
        left \in {"empty", "enemy", "own", "ep"}, right \in {"empty", "enemy", "own", "ep"} }

InitGenerate ==
    /\ board \in EvaluatePositions \cup PawnPositions \cup {KiwipetePosition}
    /\ made = <<>>
    /\ entry = <<>>
    /\ last = Outcome("new", TRUE, "", board, NoMove)
    /\ fbm = Idle
    /\ bot = BotNew
    /\ perft = <<>>

\* self.generate_pseudo_legal_moves()
GeneratePseudoLegalMoves ==
    /\ last.op = "new"
    /\ last' = Outcome("generate_pseudo_legal_moves", TRUE, "", board, NoMove)
                   @@ [moves |-> generate_pseudo_legal_moves(board)]
    /\ UNCHANGED <<board, made, entry, fbm, bot, perft>>

NextGenerate == GeneratePseudoLegalMoves

SpecGenerate == InitGenerate /\ [][NextGenerate]_vars

-----------------------------------------------------------------------------
(* search and search_all_captures called with a window                     *)

MaxWindowDepth == 2

\* the windows alpha < beta the callers below pass
Windows ==
    {w \in {-INF, -200, 100} \X {-100, 200, INF} : w[1] < w[2]}

\* search(&mut move_generator, depth, alpha, beta)
SearchWindowCall ==
    /\ fbm.pc = "idle"
    /\ last.op = "new"
    /\ \E depth \in 1..MaxWindowDepth :
       \E w \in Windows :
       \E r \in {search(board, depth, w[1], w[2])} :
          /\ board' = r.board
          /\ last' = Returned("search", board, depth, r.eval, "", NoMove)
                        @@ [alpha |-> w[1], beta |-> w[2]]
    /\ UNCHANGED <<made, entry, fbm, bot, perft>>

\* search_all_captures(&mut move_generator, alpha, beta)
SearchAllCapturesWindowCall ==
    /\ fbm.pc = "idle"
    /\ last.op = "new"
    /\ \E w \in Windows :
       \E r \in {search_all_captures(board, w[1], w[2])} :
          /\ board' = r.board
          /\ last' = Returned("search_all_captures", board, 0, r.eval, "", NoMove)
                        @@ [alpha |-> w[1], beta |-> w[2]]
    /\ UNCHANGED <<made, entry, fbm, bot, perft>>

NextWindow ==
    \/ SearchWindowCall
    \/ SearchAllCapturesWindowCall

SpecWindow == InitSearch /\ [][NextWindow]_vars


-----------------------------------------------------------------------------
(* try_from_fen on malformed strings                                       *)

\* the fields of a FEN string joined by single spaces
RECURSIVE join_fields(_)
join_fields(fields) ==
    IF fields = <<>> THEN <<>>
    ELSE IF Len(fields) = 1 THEN fields[1]
    ELSE fields[1] \o <<" ">> \o join_fields(Tail(fields))

\* rank -= 1 below rank 0 in a build with overflow checks: the eighth '/'
\* of the layout, when the loop gets that far
rank_underflows(symbols) ==
    \E i \in 1..Len(symbols) :
        /\ symbols[i] = "/"
        /\ Cardinality({j \in 1..i : symbols[j] = "/"}) = 8
        /\ fen_layout(BoardDefault, SubSeq(symbols, 1, i - 1), 1, 0, 7).ok

\* try_from_fen with the overflow checks of the build on or off
try_from_fen_built(fen, overflow_checks) ==
    LET fen_string_fields == split_whitespace(fen, 1, <<>>)
    IN  IF /\ overflow_checks
           /\ fen_string_fields # <<>>
           /\ rank_underflows(fen_string_fields[1])
        THEN FenParsed(FALSE, "", TRUE, BoardDefault)
        ELSE try_from_fen_str(fen)

\* layouts with a symbol that is no piece: 9/8/8/8/8/8/8/8, 4x3/8/8/8/8/8/8/8
\* and 8/8/8/8/8/8/8/0K
InvalidSymbolLayouts ==
    { <<"9">> \o SubSeq(EmptyLayout, 2, Len(EmptyLayout)),
      <<"4", "x", "3">> \o SubSeq(EmptyLayout, 2, Len(EmptyLayout)),
      SubSeq(EmptyLayout, 1, Len(EmptyLayout) - 1) \o <<"0", "K">> }

\* layouts with more than eight files in a rank: ppppppppp/8/8/8/8/8/8/8,
\* 8/8/8/8/8/8/8/8p and 4k3/8/8/8/8/8/8/4K3P
TooManyFilesLayouts ==
    { <<"p", "p", "p", "p", "p", "p", "p", "p", "p">> \o SubSeq(EmptyLayout, 2, Len(EmptyLayout)),
      EmptyLayout \o <<"p">>,
      KingsLayout \o <<"P">> }

\* layouts with more than eight ranks: 8/8/8/8/8/8/8/8/8, 8/8/8/8/8/8/8/8/K
\* and 4k3/8/8/8/8/8/8/4K3/8/8
TooManyRanksLayouts ==
    { EmptyLayout \o <<"/", "8">>,
      EmptyLayout \o <<"/", "K">>,
      KingsLayout \o <<"/", "8", "/", "8">> }

WellFormedFields ==
    { <<layout, side, castling, <<"-">>, <<"0">>, <<"1">> >> :
        layout \in {EmptyLayout, KingsLayout},
        side \in {<<"w">>, <<"b">>},
        castling \in {<<"-">>, <<"K", "Q", "k", "q">>} }

\* the malformed fields, each tagged with what is wrong with it
MalformedFields ==
    UNION { { [kind |-> "piece symbol", fields |-> [f EXCEPT ![1] = x]] : x \in InvalidSymbolLayouts }
            \cup { [kind |-> "files", fields |-> [f EXCEPT ![1] = x]] : x \in TooManyFilesLayouts }
            \cup { [kind |-> "ranks", fields |-> [f EXCEPT ![1] = x]] : x \in TooManyRanksLayouts }
            \cup { [kind |-> "side to move", fields |-> [f EXCEPT ![2] = x]] :
                     x \in {<<"-">>, <<"W">>, <<"w", "b">>} }
            \cup { [kind |-> "castling", fields |-> [f EXCEPT ![3] = x]] :
                     x \in {<<"b", "w">>, <<"K", "Q", "k", "x">>, <<"0">>} }
            \cup { [kind |-> "en passant", fields |-> [f EXCEPT ![4] = x]] :
                     x \in {<<"-", "7">>, <<"h">>, <<"h", "h">>, <<"e", "9">>, <<"i", "3">>} }
            \cup { [kind |-> "clock", fields |-> [f EXCEPT ![5] = x]] :
                     x \in {<<"-", "1">>, <<"x">>, <<"1", ".", "5">>} }
            \cup { [kind |-> "clock", fields |-> [f EXCEPT ![6] = x]] :
                     x \in {<<"-", "1">>, <<"x">>, <<"1", ".", "5">>} }
            \cup { [kind |-> "fields", fields |-> SubSeq(f, 1, n)] : n \in 0..5 } :
          f \in WellFormedFields }

\* BoardBuilder::try_from_fen(fen) on a malformed string
TryFromMalformedFen ==
    /\ last.op = "new"
    /\ \E malformed \in MalformedFields :
       \E overflow_checks \in BOOLEAN :
       \E fen \in {join_fields(malformed.fields)} :
       \E res \in {try_from_fen_built(fen, overflow_checks)} :
          /\ board' = IF res.ok THEN res.board ELSE board
          /\ last' = [Outcome("try_from_fen", res.ok, res.err, board, NoMove)
                         EXCEPT !.state = IF res.aborted THEN "aborted" ELSE ""]
                         @@ [fen |-> fen, kind |-> malformed.kind]
    /\ UNCHANGED <<made, entry, fbm, bot, perft>>

NextFenMalformed == TryFromMalformedFen

SpecFenMalformed == InitFen /\ [][NextFenMalformed]_vars


-----------------------------------------------------------------------------
(* The calls below a call of search: their windows and their values        *)

RECURSIVE search_calls(_, _, _, _)
RECURSIVE search_calls_moves(_, _, _, _, _, _)

\* the calls made from move i on by the loop of search, or of
\* search_all_captures when depth is 0, until the loop ends or cuts off
search_calls_moves(b, moves, i, depth, alpha, beta) ==
    IF i > Len(moves) THEN {}
    ELSE LET child == move_piece(b, moves[i])
             child_depth == IF depth = 0 THEN 0 ELSE depth - 1
             eval == neg(search(child, child_depth, -beta, -alpha).eval)
         IN  search_calls(child, child_depth, -beta, -alpha)
                 \cup (IF eval >= beta THEN {}
                       ELSE search_calls_moves(b, moves, i + 1, depth, Max(eval, alpha), beta))

\* the call search(depth, alpha, beta) on b and every call below it, each
\* with its window and the value it returns; the value of evaluate counts
\* as a call of its own
search_calls(b, depth, alpha, beta) ==
    {[alpha |-> alpha, beta |-> beta, eval |-> search(b, depth, alpha, beta).eval]}
      \cup (IF depth = 0
            THEN {[alpha |-> alpha, beta |-> beta, eval |-> evaluate(b)]}
                   \cup (IF evaluate(b) >= beta THEN {}
                         ELSE search_calls_moves(
                                  b,
                                  sort_unstable_by_key(
                                      b, SelectSeq(generate_moves(b).moves, is_capture_flag)),
                                  1, 0, Max(alpha, evaluate(b)), beta))
            ELSE search_calls_moves(b, sort_unstable_by_key(b, generate_moves(b).moves),
                                    1, depth, alpha, beta))


-----------------------------------------------------------------------------
(* BoardBuilder: the setters of the castling rights.  The builder's fields *)
(* can_white_king_side_castle, can_black_king_side_castle,                 *)
(* can_white_queen_side_castle and can_black_queen_side_castle are the     *)
(* four castling privileges of the Board.                                  *)

\* BoardBuilder::can_king_side_castle(color, castle)
can_king_side_castle(b, color, castle) ==
    IF color = White
    THEN [b EXCEPT !.board_state.black_kingside_castling_priviledge = castle]
    ELSE [b EXCEPT !.board_state.white_kingside_castling_priviledge = castle]

\* BoardBuilder::can_queen_side_castle(color, castle)
can_queen_side_castle(b, color, castle) ==
    IF color = White
    THEN [b EXCEPT !.board_state.black_queenside_castling_priviledge = castle]
    ELSE [b EXCEPT !.board_state.white_queenside_castling_priviledge = castle]

\* builder.can_king_side_castle(color, castle)
CanKingSideCastle ==
    /\ \E color \in {White, Black} : \E castle \in BOOLEAN :
          /\ board' = can_king_side_castle(board, color, castle)
          /\ last' = Outcome("can_king_side_castle", TRUE, "", board, NoMove)
                         @@ [color |-> color, castle |-> castle]
    /\ UNCHANGED <<made, entry, fbm, bot, perft>>

\* builder.can_queen_side_castle(color, castle)
CanQueenSideCastle ==
    /\ \E color \in {White, Black} : \E castle \in BOOLEAN :
          /\ board' = can_queen_side_castle(board, color, castle)
          /\ last' = Outcome("can_queen_side_castle", TRUE, "", board, NoMove)
                         @@ [color |-> color, castle |-> castle]
    /\ UNCHANGED <<made, entry, fbm, bot, perft>>

\* BoardBuilder::new() and BoardBuilder::from_starting_position()
InitBuilder ==
    /\ board \in {BoardDefault, starting_position}
    /\ made = <<>>
    /\ entry = <<>>
    /\ last = Outcome("new", TRUE, "", board, NoMove)
    /\ fbm = Idle
    /\ bot = BotNew
    /\ perft = <<>>

NextBuilder ==
    \/ CanKingSideCastle
    \/ CanQueenSideCastle

SpecBuilder == InitBuilder /\ [][NextBuilder]_vars

-----------------------------------------------------------------------------
(* The rules of chess the generator is measured against                    *)

RankOf(s) == s \div 8
FileOf(s) == s % 8

\* the squares strictly between two squares of one rank, file or diagonal
Between(from, to) ==
    LET dr == RankOf(to) - RankOf(from)
        df == FileOf(to) - FileOf(from)
        n == IF Abs(dr) > Abs(df) THEN Abs(dr) ELSE Abs(df)
        sr == IF dr > 0 THEN 1 ELSE IF dr < 0 THEN -1 ELSE 0
        sf == IF df > 0 THEN 1 ELSE IF df < 0 THEN -1 ELSE 0
    IN  {from + k * (8 * sr + sf) : k \in 1..(n - 1)}

\* the piece standing on `from` attacks the square `to`
Attacks(b, from, to) ==
    LET dr == RankOf(to) - RankOf(from)
        df == FileOf(to) - FileOf(from)
        straight == (dr = 0 \/ df = 0) /\ from # to
        diagonal == Abs(dr) = Abs(df) /\ from # to
        open == \A m \in Between(from, to) : b.squares[m] = None
        piece == b.squares[from]
    IN  CASE piece = Pawn ->
                Abs(df) = 1 /\ dr = (IF b.colors[from] = White THEN 1 ELSE -1)
          [] piece = Knight -> {Abs(dr), Abs(df)} = {1, 2}
          [] piece = King -> Abs(dr) <= 1 /\ Abs(df) <= 1 /\ from # to
          [] piece = Rook -> straight /\ open
          [] piece = Bishop -> diagonal /\ open
          [] piece = Queen -> (straight \/ diagonal) /\ open
          [] OTHER -> FALSE

SquareAttackedBy(b, square, color) ==
    \E from \in Squares : b.colors[from] = color /\ Attacks(b, from, square)

KingAttacked(b, color) ==
    \E k \in Squares :
        /\ b.squares[k] = King /\ b.colors[k] = color
        /\ SquareAttackedBy(b, k, opposite_color(color))

OneKingEach(b) ==
    \A c \in {White, Black} :
        Cardinality({s \in Squares : b.squares[s] = King /\ b.colors[s] = c}) = 1

\* the side to move has no legal move and its king is attacked
Mated(b) == generate_moves(b).moves = <<>> /\ KingAttacked(b, b.to_move)

\* the side to move has no legal move and its king is not attacked
Stalemated(b) == generate_moves(b).moves = <<>> /\ ~KingAttacked(b, b.to_move)

\* whatever the side to move plays, it is mated within k plies
RECURSIVE ForcedMate(_, _)
ForcedMate(b, k) ==
    \/ Mated(b)
    \/ /\ k >= 2
       /\ ~Stalemated(b)
       /\ \A reply \in {generate_moves(b).moves[i] : i \in 1..Len(generate_moves(b).moves)} :
            \E after_reply \in {move_piece(b, reply)} :
            \E mv \in {generate_moves(after_reply).moves[i] :
                           i \in 1..Len(generate_moves(after_reply).moves)} :
               ForcedMate(move_piece(after_reply, mv), k - 2)

-----------------------------------------------------------------------------
(* Claims                                                                  *)

\* C1: a generated move that is made and then unmade leaves the Board equal
\* to the Board before the move in every field, history stack included.
C1_MakeUnmakeRoundTrip ==
    [][ (last.op = "move_piece" /\ last'.op = "unmake_move")
            => (last'.ok /\ last'.mv = last.mv /\ board' = last.before) ]_vars

\* Black's capture-promotion, en-passant capture or castle, made as the
\* second ply, was taken back
C1_Witness ==
    /\ last.op = "unmake_move" /\ last.ok
    /\ last.mv.flag.tag \in {"CaptureWithPromotion", "EnPassantCapture",
                             "KingsideCastle", "QueensideCastle"}
    /\ board.to_move = Black
    /\ Len(made) = 1

\* C2: the history holds one snapshot per made-but-not-undone ply; a make
\* pushes one, a successful unmake pops one, and unmaking in reverse order
\* leads back to the Board each move was made on.
C2_StackDiscipline ==
    /\ [](Len(board.board_state_history) = Len(made))
    /\ [][ /\ last'.op = "move_piece" =>
                Len(board'.board_state_history) = Len(board.board_state_history) + 1
           /\ (last'.op = "unmake_move" /\ made # <<>>) =>
                /\ last'.ok
                /\ Len(board'.board_state_history) = Len(board.board_state_history) - 1
                /\ board' = entry[Len(entry)] ]_vars

\* two plies were made and both were taken back, in reverse order
C2_Witness ==
    /\ last.op = "unmake_move" /\ last.ok
    /\ made = <<>>
    /\ Len(last.before.board_state_history) = 1
    /\ board.board_state_history = <<>>

\* C3: after a generated move the king of the side that moved is not attacked.
C3_NoSelfCheck ==
    (last.op = "move_piece" /\ OneKingEach(last.before))
        => ~KingAttacked(board, last.before.to_move)

\* the mover was in check and a generated move answered it
C3_Witness ==
    /\ last.op = "move_piece"
    /\ KingAttacked(last.before, last.before.to_move)
    /\ ~KingAttacked(board, last.before.to_move)

\* C4: a castle is generated only with the right held, the squares between
\* king and rook empty, and the king's start, transit and landing squares
\* not attacked.
C4_CastlingLegality ==
    (last.op = "move_piece" /\ last.mv.flag.tag \in {"KingsideCastle", "QueensideCastle"})
    =>  LET P == last.before
            white == P.to_move = White
            short == last.mv.flag.tag = "KingsideCastle"
            r == IF white THEN 1 ELSE 8
            right == IF short
                     THEN IF white THEN P.board_state.white_kingside_castling_priviledge
                                   ELSE P.board_state.black_kingside_castling_priviledge
                     ELSE IF white THEN P.board_state.white_queenside_castling_priviledge
                                   ELSE P.board_state.black_queenside_castling_priviledge
            between == IF short THEN {At(6, r), At(7, r)} ELSE {At(2, r), At(3, r), At(4, r)}
            kingpath == IF short THEN {At(5, r), At(6, r), At(7, r)}
                                 ELSE {At(5, r), At(4, r), At(3, r)}
        IN  /\ right
            /\ \A s \in between : P.squares[s] = None /\ P.colors[s] = None
            /\ \A s \in kingpath : ~SquareAttackedBy(P, s, opposite_color(P.to_move))
            /\ last.mv.starting_square = At(5, r)
            /\ last.mv.target_square = (IF short THEN At(7, r) ELSE At(3, r))

\* White castled long while castling short was pseudo-legal but crossed f1
C4_Witness ==
    /\ last.op = "move_piece"
    /\ last.mv.flag.tag = "QueensideCastle"
    /\ last.before.to_move = White
    /\ last.before.board_state.white_kingside_castling_priviledge
    /\ last.before.squares[F1] = None /\ last.before.squares[G1] = None
    /\ SquareAttackedBy(last.before, F1, Black)

\* C5: for either colour, whichever side is to move, is_in_check tells
\* whether that colour's king is attacked.
C5_IsInCheckAgrees ==
    OneKingEach(board) =>
        \A c \in {White, Black} : is_in_check(board, c) = KingAttacked(board, c)

\* a pawn move gave check to the side that is now to move
C5_Witness ==
    /\ last.op = "move_piece"
    /\ last.mv.flag = NoFlag
    /\ last.before.squares[last.mv.starting_square] = Pawn
    /\ KingAttacked(board, board.to_move)
    /\ ~KingAttacked(last.before, board.to_move)

\* C6: generate_moves, search, search_all_captures and find_best_move return
\* with the Board equal in every field, history included, to the Board they
\* were called on; find_best_move also holds it between two root moves.
C6_BoardRestored ==
    /\ last.op \in {"generate_moves", "search", "search_all_captures", "find_best_move"}
          => board = last.before
    /\ fbm.pc \in {"loop", "done"} => board = fbm.entry

\* a search two plies deep returned on a Board that has a made move in its
\* history and an en-passant capture among its moves
C6_Witness ==
    /\ last.op = "search"
    /\ last.depth = 2
    /\ Len(last.before.board_state_history) = 1
    /\ last.before.board_state.en_passant_square # <<>>
    /\ board = last.before

\* C7: unmake_move on an empty history fails and leaves the Board as it was.
C7_UnmakeAtOldest ==
    (last.op = "unmake_move" /\ last.before.board_state_history = <<>>)
        => /\ ~last.ok
           /\ last.err = "Already at oldest move"
           /\ board = last.before

\* a double push that was never made was asked to be unmade
C7_Witness ==
    /\ last.op = "unmake_move"
    /\ last.before.board_state_history = <<>>
    /\ ~last.ok
    /\ last.mv.flag.tag = "PawnDoublePush"

\* C8: search at depth >= 1 on a position without legal moves returns -INF
\* when the side to move is attacked and 0 when it is not; check_game_state
\* answers Checkmate and Stalemate for the same two cases; whichever piece,
\* a pawn included, gives the check.
C8_TerminalNodes ==
    /\ (last.op = "search" /\ last.depth >= 1 /\ Mated(last.before)) => last.value = -INF
    /\ (last.op = "search" /\ last.depth >= 1 /\ Stalemated(last.before)) => last.value = 0
    /\ (last.op = "check_game_state" /\ Mated(last.before)) => last.state = "Checkmate"
    /\ (last.op = "check_game_state" /\ Stalemated(last.before)) => last.state = "Stalemate"

\* check_game_state was asked about a position where a pawn gives mate
C8_Witness ==
    /\ last.op = "check_game_state"
    /\ Mated(last.before)
    /\ \E sq \in Squares :
          /\ last.before.squares[sq] = Pawn
          /\ Attacks(last.before, sq, king_square_of(last.before, last.before.to_move)[1])

\* C9: when the side to move has a move that mates at once, find_best_move
\* with the tablebase out of reach and depth >= 2 returns a mating move with
\* the score +INF.
C9_MateInOneFound ==
    ( /\ fbm.pc = "done"
      /\ ~fbm.tablebase
      /\ fbm.depth >= 2
      /\ \E i \in 1..Len(fbm.moves) : Mated(move_piece(fbm.entry, fbm.moves[i])) )
    => /\ fbm.best_eval = INF
       /\ Mated(move_piece(fbm.entry, fbm.best_move))

\* find_best_move returned from a position with a mate in one, found or not
C9_Witness ==
    /\ fbm.pc = "done"
    /\ ~fbm.tablebase
    /\ fbm.depth >= 2
    /\ \E i \in 1..Len(fbm.moves) : Mated(move_piece(fbm.entry, fbm.moves[i]))

\* C10: find_best_move searches depths in increasing order and returns at
\* once on +INF; the move returned with +INF forces mate within the plies of
\* the iteration that found it, and no root move forces it in fewer.
C10_FastestMate ==
    /\ []( (fbm.pc = "done" /\ ~fbm.tablebase /\ fbm.best_eval = INF)
            => /\ ForcedMate(move_piece(fbm.entry, fbm.best_move), fbm.curr_depth - 1)
               /\ \A i \in 1..Len(fbm.moves) : \A k \in 0..(fbm.curr_depth - 2) :
                     ForcedMate(move_piece(fbm.entry, fbm.moves[i]), k)
                        => ForcedMate(move_piece(fbm.entry, fbm.best_move), k) )
    /\ [][ /\ (fbm.pc = "loop" /\ fbm'.pc = "loop") =>
                \/ fbm'.curr_depth = fbm.curr_depth /\ fbm'.i = fbm.i + 1
                \/ fbm'.curr_depth = fbm.curr_depth + 1 /\ fbm'.i = 1
                                                        /\ fbm.i = Len(fbm.moves)
           /\ fbm.pc = "done" => fbm'.pc = "done" ]_vars

\* find_best_move returned a move with the score +INF
C10_Witness ==
    /\ fbm.pc = "done"
    /\ ~fbm.tablebase
    /\ fbm.best_eval = INF
    /\ fbm.curr_depth >= 1

-----------------------------------------------------------------------------
(* Plain negamax: no window, no cutoff, no order                           *)

SetMax(S) == CHOOSE x \in S : \A y \in S : y <= x

Reverse(s) == [i \in 1..Len(s) |-> s[Len(s) + 1 - i]]

\* the stand-pat value or the best capture, whichever is greater
RECURSIVE quiescence(_)
quiescence(b) ==
    LET captures == SelectSeq(generate_moves(b).moves, is_capture_flag)
    IN  SetMax({evaluate(b)} \cup
               {-quiescence(move_piece(b, captures[i])) : i \in 1..Len(captures)})

\* the greatest of the negated values of the positions after each move, the
\* moves taken as a set
RECURSIVE negamax(_, _)
negamax(b, depth) ==
    IF depth = 0 THEN quiescence(b)
    ELSE LET moves == generate_moves(b).moves
         IN  IF moves = <<>> THEN no_moves_value(b)
             ELSE SetMax({-negamax(move_piece(b, moves[i]), depth - 1) :
                              i \in 1..Len(moves)})

\* search with the full window on the moves of the position tried in the
\* reverse of the sorted order
search_reversed(b, depth) ==
    LET gm == generate_moves(b)
    IN  IF gm.moves = <<>> THEN no_moves_value(gm.board)
        ELSE search_moves(gm.board, Reverse(sort_unstable_by_key(gm.board, gm.moves)),
                          1, depth, -INF, INF).eval

\* search and search_all_captures with the window (-INF, +INF) return the
\* value of plain negamax, and search returns it as well with the root moves
\* tried in the reverse order
C11_SearchIsNegamax ==
    /\ last.op = "search" =>
          /\ last.value = negamax(last.before, last.depth)
          /\ search_reversed(last.before, last.depth) = last.value
    /\ last.op = "search_all_captures" => last.value = quiescence(last.before)

\* C11: the value search returns with the window (-INF, +INF) is the value
\* of plain negamax with capture-only quiescence and stand-pat at the
\* leaves, which takes the moves as a set, and so is the value with the root
\* moves tried in the reverse order; the score find_best_move returns from
\* its search is that value for the depth it was given.
C11_MoveOrderAdvisory ==
    /\ C11_SearchIsNegamax
    /\ (fbm.pc = "done" /\ ~fbm.tablebase) =>
          fbm.best_eval = negamax(fbm.entry, fbm.depth)

\* find_best_move returned from its search three plies deep on a position
\* where the side to move is not mated and every move it has is answered
\* by mate
C11_Witness ==
    /\ fbm.pc = "done"
    /\ ~fbm.tablebase
    /\ fbm.depth = 3
    /\ fbm.moves # <<>>
    /\ negamax(fbm.entry, 3) = -INF

\* the king of a colour and its rook of a side stand on their home squares
at_home(b, color, king_square, rook_square) ==
    /\ b.squares[king_square] = King /\ b.colors[king_square] = color
    /\ b.squares[rook_square] = Rook /\ b.colors[rook_square] = color

\* C12: in every position reached from a starting position by generated
\* moves, a castling right that is set has the king of its colour on e1 or
\* e8 and the rook of its colour on the home square of its side.
C12_CastlingRightsImplyHome ==
    LET st == board.board_state
    IN  /\ st.white_kingside_castling_priviledge => at_home(board, White, E1, H1)
        /\ st.white_queenside_castling_priviledge => at_home(board, White, E1, A1)
        /\ st.black_kingside_castling_priviledge => at_home(board, Black, E8, H8)
        /\ st.black_queenside_castling_priviledge => at_home(board, Black, E8, A8)

\* a rook was just captured on h1 while White held both rights; the
\* queen-side right is still set
C12_Witness ==
    /\ last.op = "move_piece"
    /\ last.mv.target_square = H1
    /\ last.before.squares[H1] = Rook
    /\ last.before.board_state.white_kingside_castling_priviledge
    /\ board.board_state.white_queenside_castling_priviledge
    /\ board.squares[H1] = Rook /\ board.colors[H1] = Black

\* the four castling rights: whose they are, the rook's home square, the value
castling_rights(st) ==
    { [color |-> White, rook_home |-> H1, set |-> st.white_kingside_castling_priviledge],
      [color |-> White, rook_home |-> A1, set |-> st.white_queenside_castling_priviledge],
      [color |-> Black, rook_home |-> H8, set |-> st.black_kingside_castling_priviledge],
      [color |-> Black, rook_home |-> A8, set |-> st.black_queenside_castling_priviledge] }

\* the moves after which a right is to be unset: a move of the king of the
\* right's colour, castling included, a rook leaving the right's corner, a
\* move of the other side onto the right's corner
clears_right(b, mv, right) ==
    \/ b.to_move = right.color /\ b.squares[mv.starting_square] = King
    \/ b.squares[mv.starting_square] = Rook /\ mv.starting_square = right.rook_home
    \/ b.to_move # right.color /\ mv.target_square = right.rook_home

\* C13: after move_piece a right is unset when the king of its colour moved
\* or castled, when a rook left its corner, or when the other side moved
\* onto its corner; after every other move each right is what it was; and
\* no right that was unset is set.
C13_CastlingRightsCleared ==
    last.op = "move_piece" =>
        \A before \in castling_rights(last.before.board_state) :
        \A after \in castling_rights(board.board_state) :
            (before.rook_home = after.rook_home) =>
                /\ clears_right(last.before, last.mv, before) => ~after.set
                /\ ~clears_right(last.before, last.mv, before) => after.set = before.set
                /\ after.set => before.set

\* Black castled king-side while it held both rights and has none left;
\* White's are what they were
C13_Witness ==
    /\ last.op = "move_piece"
    /\ last.mv.flag = KingsideCastle
    /\ last.before.to_move = Black
    /\ last.before.board_state.black_kingside_castling_priviledge
    /\ last.before.board_state.black_queenside_castling_priviledge
    /\ ~board.board_state.black_kingside_castling_priviledge
    /\ ~board.board_state.black_queenside_castling_priviledge
    /\ board.board_state.white_kingside_castling_priviledge
    /\ board.board_state.white_queenside_castling_priviledge

\* C14: en_passant_square is set after a PawnDoublePush and after no other
\* move, whether or not a pawn can capture there; when set it lies on the
\* third rank after a push of White and on the sixth after a push of Black,
\* the square in front of it holds a pawn of the side that pushed and the
\* square behind it, where the pawn came from, is empty; it is unset in the
\* position the engine starts from.
C14_EnPassantTarget ==
    LET ep == board.board_state.en_passant_square
        mover == last.before.to_move
        forward == IF mover = White THEN 8 ELSE -8
    IN  /\ last.op = "new" => ep = <<>>
        /\ last.op = "move_piece" =>
              /\ ep # <<>> <=> last.mv.flag = PawnDoublePush
              /\ ep # <<>> =>
                    /\ RankOf(ep[1]) = (IF mover = White THEN 2 ELSE 5)
                    /\ board.squares[ep[1] + forward] = Pawn
                    /\ board.colors[ep[1] + forward] = mover
                    /\ ep[1] + forward = last.mv.target_square
                    /\ board.squares[ep[1] - forward] = None
                    /\ ep[1] - forward = last.mv.starting_square

\* a double push was just played next to no pawn of the other side, and the
\* square it passed is the en-passant square
C14_Witness ==
    /\ last.op = "move_piece"
    /\ last.mv.flag = PawnDoublePush
    /\ board.board_state.en_passant_square # <<>>
    /\ \A sq \in Squares :
          (RankOf(sq) = RankOf(last.mv.target_square) /\ sq # last.mv.target_square)
              => board.squares[sq] # Pawn

\* C15: move_piece sets half_move_clock to 0 when a pawn moves (push, double
\* push, promotion, en passant) or a piece is captured, and to one more than
\* it was after every other move, the two castles among them.
C15_HalfMoveClock ==
    last.op = "move_piece" =>
        LET pawn_move == last.before.squares[last.mv.starting_square] = Pawn
            capture == is_capture_flag(last.mv)
        IN  board.board_state.half_move_clock =
                (IF pawn_move \/ capture THEN 0
                 ELSE last.before.board_state.half_move_clock + 1)

\* a castle was played on a running clock, which went up by one
C15_Witness ==
    /\ last.op = "move_piece"
    /\ last.mv.flag \in {KingsideCastle, QueensideCastle}
    /\ last.before.board_state.half_move_clock > 0
    /\ board.board_state.half_move_clock = last.before.board_state.half_move_clock + 1

\* the piece a move promotes to, None when it promotes nothing
promotion_kind(mv) ==
    IF mv.flag.tag \in {"PromoteTo", "CaptureWithPromotion"} THEN mv.flag.promotion ELSE None

\* a string <from><to>[q|r|b|n]: two square names and at most one of the
\* four letters
well_formed_uci(uci) ==
    /\ Len(uci) \in {4, 5}
    /\ from_algebraic_notation(SubSeq(uci, 1, 2)).ok
    /\ from_algebraic_notation(SubSeq(uci, 3, 4)).ok
    /\ Len(uci) = 5 => uci[5] \in {"q", "r", "b", "n"}

\* the legal moves of a position that agree with a string in the from
\* square, the to square and the promotion kind
agreeing_moves(b, uci) ==
    LET moves == generate_moves(b).moves
        letter == IF Len(uci) = 5 THEN uci[5] ELSE ""
        kind == CASE letter = "q" -> Queen [] letter = "r" -> Rook
                  [] letter = "b" -> Bishop [] letter = "n" -> Knight
                  [] OTHER -> None
    IN  { moves[i] : i \in { j \in 1..Len(moves) :
            /\ moves[j].starting_square = from_algebraic_notation(SubSeq(uci, 1, 2)).square
            /\ moves[j].target_square = from_algebraic_notation(SubSeq(uci, 3, 4)).square
            /\ promotion_kind(moves[j]) = kind } }

\* C16: on a string <from><to>[q|r|b|n] try_from_uci returns the one legal
\* move that agrees with it in the from square, the to square and the
\* promotion kind, and when no legal move agrees in all three (four
\* characters for a pawn reaching the last rank, five for a move that
\* promotes nothing, squares no move joins) it returns an error and no move.
C16_UciResolution ==
    (last.op = "try_from_uci" /\ well_formed_uci(last.uci)) =>
        LET agreeing == agreeing_moves(last.before, last.uci)
        IN  /\ Cardinality(agreeing) <= 1
            /\ agreeing # {} => last.ok /\ last.mv \in agreeing
            /\ agreeing = {} => ~last.ok /\ last.mv = NoMove

\* try_from_uci was given four characters that name the push of a pawn onto
\* the last rank
C16_Witness ==
    /\ last.op = "try_from_uci"
    /\ Len(last.uci) = 4
    /\ well_formed_uci(last.uci)
    /\ \E i \in 1..Len(generate_moves(last.before).moves) :
          /\ generate_moves(last.before).moves[i].flag.tag = "PromoteTo"
          /\ SubSeq(to_uci(generate_moves(last.before).moves[i]), 1, 4) = last.uci

\* every string of a list names a legal move of the position reached by the
\* moves before it
RECURSIVE all_legal(_, _, _)
all_legal(b, moves, i) ==
    \/ i > Len(moves)
    \/ /\ Len(moves[i]) >= 4
       /\ try_from_uci(moves[i], b).ok
       /\ all_legal(move_piece(b, try_from_uci(moves[i], b).mv), moves, i + 1)

\* a token that is not a number stands where a go command needs one
unparsable_go(args) ==
    \E i \in 1..Len(args) :
        /\ args[i] \in { <<"m", "o", "v", "e", "t", "i", "m", "e">>,
                         <<"w", "t", "i", "m", "e">>, <<"b", "t", "i", "m", "e">> }
        /\ i = Len(args) \/ ~parse_u128(args[i + 1]).ok

\* the commands that fail: a malformed FEN, a move that is not legal where
\* it is played, an unparsable go argument, an unrecognized command
command_fails(command) ==
    \/ command.name \notin {"uci", "isready", "position", "go", "ucinewgame", "stop", "quit"}
    \/ command.name = "position" /\ command.kind \notin {"startpos", "fen"}
    \/ command.name = "position" /\ command.kind = "fen" /\ ~command.fen.well_formed
    \/ command.name = "position" /\ command.kind = "startpos"
           /\ ~all_legal(starting_position, command.moves, 1)
    \/ command.name = "position" /\ command.kind = "fen" /\ command.fen.well_formed
           /\ ~all_legal(command.fen.position, command.moves, 1)
    \/ command.name = "go" /\ unparsable_go(command.args)

\* C17: after a command that fails the loop is alive and takes the next
\* command, the error was handed to the loop and logged, and the command
\* printed no bestmove line.
C17_FailedCommandSurvived ==
    (last.op = "process_commands" /\ command_fails(bot.input)) =>
        /\ bot.alive
        /\ ENABLED StartUci
        /\ ~last.ok
        /\ \E i \in 2..Len(bot.logged) : bot.logged[i] = <<last.err>>
        /\ \A i \in 1..Len(bot.printed) : bot.printed[i][1] # "bestmove"

\* the loop was given a position command with a move that is not legal
C17_Witness ==
    /\ last.op = "process_commands"
    /\ bot.input.name = "position"
    /\ bot.input.kind = "startpos"
    /\ Len(bot.input.moves) = 2
    /\ command_fails(bot.input)

\* C18: find_best_move takes the answer of the tablebase only when at most
\* seven pieces are on the board; a query that succeeds gives the move and
\* the score that are returned, the move being the one the answer names
\* and the score the one of its category; after a query that fails, for
\* whatever reason, the move and the score are the ones of the search run
\* without a tablebase.
C18_TablebaseFallback ==
    fbm.pc = "done" =>
        /\ fbm.tablebase =>
              /\ pieces_left(fbm.entry) <= 7
              /\ fbm.answer.ok
              /\ to_uci(fbm.best_move) = get_best_move(fbm.answer.moves).uci
              /\ fbm.best_eval =
                    (CASE get_best_move(fbm.answer.moves).category = "win" -> -INF
                       [] get_best_move(fbm.answer.moves).category = "draw" -> 0
                       [] get_best_move(fbm.answer.moves).category = "loss" -> INF)
              /\ fbm.curr_depth = 0 /\ fbm.i = 0
        /\ ~fbm.tablebase =>
              /\ pieces_left(fbm.entry) > 7 \/ ~query_tablebase(fbm.entry, fbm.answer).ok
              /\ [mv |-> fbm.best_move, eval |-> fbm.best_eval, board |-> fbm.entry]
                    = find_best_move_sorted(fbm.entry,
                                            sort_unstable_by_key(fbm.entry, fbm.moves),
                                            fbm.depth)

\* find_best_move returned from its search on a position of at most seven
\* pieces for which the tablebase answered with a move the position does
\* not have
C18_Witness ==
    /\ fbm.pc = "done"
    /\ ~fbm.tablebase
    /\ pieces_left(fbm.entry) <= 7
    /\ fbm.answer.ok
    /\ fbm.depth >= 2

\* the tablebase moves of a list, and the categories among them
tablebase_moves(moves) == {moves[i] : i \in 1..Len(moves)}

\* the best category of a list: a loss before a draw before a win
best_category(moves) ==
    IF \E m \in tablebase_moves(moves) : m.category = "loss" THEN "loss"
    ELSE IF \E m \in tablebase_moves(moves) : m.category = "draw" THEN "draw"
    ELSE "win"

\* dtm a is at least dtm b, no dtm being below every dtm
dtm_at_least(a, b) == b = <<>> \/ (a # <<>> /\ a[1] >= b[1])

\* C19: for a non-empty list of tablebase moves, the move query_tablebase
\* returns is the one of a tablebase move of the best category of the list,
\* a loss before a draw before a win; when it is a loss no loss of the list
\* has a larger dtm; the score is +INF for a loss, 0 for a draw and -INF
\* for a win.
C19_TablebaseBestMove ==
    last.op = "query_tablebase" =>
        /\ last.ok
        /\ \E m \in tablebase_moves(fbm.answer.moves) :
              /\ m.uci = to_uci(last.mv)
              /\ m = get_best_move(fbm.answer.moves)
              /\ m.category = best_category(fbm.answer.moves)
              /\ m.category = "loss" =>
                    \A o \in tablebase_moves(fbm.answer.moves) :
                        o.category = "loss" => dtm_at_least(m.dtm, o.dtm)
              /\ last.value = (CASE m.category = "loss" -> INF
                                 [] m.category = "draw" -> 0
                                 [] m.category = "win" -> -INF)

\* query_tablebase answered a list of a win, a loss and then a loss of a
\* larger dtm
C19_Witness ==
    /\ last.op = "query_tablebase"
    /\ Len(fbm.answer.moves) = 3
    /\ fbm.answer.moves[1].category = "win"
    /\ fbm.answer.moves[2].category = "loss"
    /\ fbm.answer.moves[3].category = "loss"
    /\ fbm.answer.moves[2].dtm = <<1>>
    /\ fbm.answer.moves[3].dtm = <<2>>
    /\ to_uci(last.mv) = fbm.answer.moves[3].uci

\* the moves of a list, as a set
move_set(moves) == {moves[i] : i \in 1..Len(moves)}

\* C20: the legal moves of a position sorted by guess_move_score come out
\* as one sequence in whatever order they went in: the sequence the moves
\* give in the order of the generator.
C20_OrderingIgnoresInputOrder ==
    last.op = "sort_unstable_by_key" =>
        last.sorted = sort_unstable_by_key(last.before, generate_moves(last.before).moves)

\* two moves of equal score went in exchanged, and the sorted list has the
\* same moves in ascending order of their keys
C20_Witness ==
    /\ last.op = "sort_unstable_by_key"
    /\ last.moves # generate_moves(last.before).moves
    /\ move_set(last.moves) = move_set(generate_moves(last.before).moves)
    /\ move_set(last.sorted) = move_set(last.moves)
    /\ \A i \in 1..(Len(last.sorted) - 1) :
          guess_move_score(last.before, last.sorted[i])
              <= guess_move_score(last.before, last.sorted[i + 1])
    /\ \E i \in 1..Len(last.moves) :
          /\ last.moves[i] # generate_moves(last.before).moves[i]
          /\ guess_move_score(last.before, last.moves[i])
                = guess_move_score(last.before, generate_moves(last.before).moves[i])
    /\ last.sorted # sort_unstable_by_key(last.before, generate_moves(last.before).moves)

\* the sum of f over a finite set
RECURSIVE SetSum(_, _)
SetSum(f(_), S) ==
    IF S = {} THEN 0
    ELSE LET x == CHOOSE y \in S : TRUE IN f(x) + SetSum(f, S \ {x})

\* the squares of the pieces of a colour
pieces_of(b, color) == {s \in Squares : b.colors[s] = color}

\* the material of a piece kind, the king counting nothing
material(p) ==
    CASE p = Pawn -> 100 [] p = Knight -> 300 [] p = Bishop -> 300
      [] p = Rook -> 500 [] p = Queen -> 900 [] p = King -> 0

\* the sum over the pieces of a colour of material and piece-square value
side_score(b, color) ==
    LET worth(s) == material(b.squares[s]) + square_table_value(b.squares[s], color, s)
    IN  SetSum(worth, pieces_of(b, color))

\* the board with only the side to move changed
other_to_move(b) == [b EXCEPT !.to_move = opposite_color(b.to_move)]

\* C21: evaluate returns the sum over the white pieces of material and
\* piece-square value minus the same sum over the black pieces when White
\* is to move and the negation of that number when Black is to move; the
\* board with only the side to move changed has the negated score; the
\* king counts no material.
C21_EvaluateSideRelative ==
    last.op = "evaluate" =>
        /\ last.value = (IF last.before.to_move = White
                         THEN side_score(last.before, White) - side_score(last.before, Black)
                         ELSE side_score(last.before, Black) - side_score(last.before, White))
        /\ evaluate(other_to_move(last.before)) = -last.value
        /\ count_material(last.before, White)
              = 100 * Cardinality({s \in pieces_of(last.before, White) :
                                     last.before.squares[s] = Pawn})
                + 300 * Cardinality({s \in pieces_of(last.before, White) :
                                       last.before.squares[s] \in {Knight, Bishop}})
                + 500 * Cardinality({s \in pieces_of(last.before, White) :
                                       last.before.squares[s] = Rook})
                + 900 * Cardinality({s \in pieces_of(last.before, White) :
                                       last.before.squares[s] = Queen})

\* evaluate returned a score other than 0 with Black to move
C21_Witness ==
    /\ last.op = "evaluate"
    /\ last.before.to_move = Black
    /\ last.value # 0
    /\ pieces_of(last.before, White) # {}
    /\ pieces_of(last.before, Black) # {}

\* the square on the same file with the rank mirrored: rank := 7 - rank
mirror_square(s) == (7 - (s \div 8)) * 8 + (s % 8)

\* the vertical mirror of a board with all colours, the castling rights
\* and the side to move swapped
mirrored(b) ==
    [b EXCEPT
        !.squares = [s \in Squares |-> b.squares[mirror_square(s)]],
        !.colors = [s \in Squares |->
                       IF b.colors[mirror_square(s)] = None THEN None
                       ELSE opposite_color(b.colors[mirror_square(s)])],
        !.to_move = opposite_color(b.to_move),
        !.board_state.white_kingside_castling_priviledge =
            b.board_state.black_kingside_castling_priviledge,
        !.board_state.black_kingside_castling_priviledge =
            b.board_state.white_kingside_castling_priviledge,
        !.board_state.white_queenside_castling_priviledge =
            b.board_state.black_queenside_castling_priviledge,
        !.board_state.black_queenside_castling_priviledge =
            b.board_state.white_queenside_castling_priviledge]

\* C22: the positional value of every piece of the board is the value of
\* a piece of the same kind and the other colour on the vertically
\* mirrored square, in evaluate and in position_value, and evaluate gives
\* the board and its vertical mirror with colours and side to move swapped
\* the same score.
C22_TablesColourSymmetric ==
    last.op = "evaluate" =>
        /\ \A s \in Squares :
              last.before.squares[s] # None =>
                /\ square_table_value(last.before.squares[s], last.before.colors[s], s)
                      = square_table_value(last.before.squares[s],
                                           opposite_color(last.before.colors[s]),
                                           mirror_square(s))
                /\ position_value(last.before.squares[s], s, last.before.colors[s])
                      = position_value(last.before.squares[s], mirror_square(s),
                                       opposite_color(last.before.colors[s]))
        /\ evaluate(mirrored(last.before)) = last.value

\* evaluate returned the score of the two kings at home and a black knight
\* on d7, which is not the score of the mirrored board with a white knight
\* on d2
C22_Witness ==
    /\ last.op = "evaluate"
    /\ last.before.squares[At(4, 7)] = Knight
    /\ last.before.colors[At(4, 7)] = Black
    /\ pieces_left(last.before) = 3
    /\ mirrored(last.before).squares[At(4, 2)] = Knight
    /\ mirrored(last.before).colors[At(4, 2)] = White
    /\ evaluate(mirrored(last.before)) # last.value

\* the board a position command starts from: the starting position, or the
\* board of its FEN
base_position(command) ==
    IF command.kind = "startpos" THEN starting_position
    ELSE try_from_fen(command.fen).board

\* every listed move names exactly one legal move of the position reached
\* so far
RECURSIVE listed_legal(_, _, _)
listed_legal(b, moves, i) ==
    \/ i > Len(moves)
    \/ /\ well_formed_uci(moves[i])
       /\ Cardinality(agreeing_moves(b, moves[i])) = 1
       /\ listed_legal(move_piece(b, CHOOSE mv \in agreeing_moves(b, moves[i]) : TRUE),
                       moves, i + 1)

\* move_piece with the flagged moves the listed moves name, in order
RECURSIVE played(_, _, _)
played(b, moves, i) ==
    IF i > Len(moves) THEN b
    ELSE played(move_piece(b, CHOOSE mv \in agreeing_moves(b, moves[i]) : TRUE),
                moves, i + 1)

\* a position command of startpos or of a FEN that parses, whose listed
\* moves are legal where they are played
position_command_in_order(command) ==
    /\ command.name = "position"
    /\ command.kind \in {"startpos", "fen"}
    /\ command.kind = "fen" => try_from_fen(command.fen).ok
    /\ listed_legal(base_position(command), command.moves, 1)

\* C23: after a position command of startpos or of a FEN that parses,
\* with listed moves that are legal where they are played, the board of
\* the bot is the starting position or the board of the FEN, whatever the
\* board was before, with move_piece called on the flagged moves the
\* listed moves name, in order; the command returns Ok and prints nothing.
C23_PositionCommand ==
    (last.op = "process_commands" /\ position_command_in_order(bot.input)) =>
        /\ last.ok
        /\ bot.alive
        /\ bot.printed = <<>>
        /\ board = played(base_position(bot.input), bot.input.moves, 1)

\* a position command with two moves was handled when the board was not
\* the starting position
C23_Witness ==
    /\ last.op = "process_commands"
    /\ position_command_in_order(bot.input)
    /\ Len(bot.input.moves) = 2
    /\ last.before # starting_position
    /\ board # last.before
    /\ Len(board.board_state_history) = 2

\* the perft counts of chess from the starting position and from the
\* Kiwipete position, by depth
perft_counts(b) ==
    IF b = starting_position THEN <<20, 400, 8902, 197281, 4865609, 119060324>>
    ELSE <<48, 2039, 97862, 4085603>>

C25_FenRoundTrip ==
    /\ last.op = "try_from_fen" => last.ok
    /\ last.op = "to_fen" => last.written = last.fen

C25_Witness ==
    /\ last.op = "to_fen"
    /\ last.written = last.fen
    /\ board.board_state.en_passant_square = <<At(5, 3)>>
    /\ board.to_move = Black
    /\ ~is_piece_at_square(board, At(4, 4), Pawn, Black)
    /\ ~is_piece_at_square(board, At(6, 4), Pawn, Black)
    /\ is_piece_at_square(board, At(5, 4), Pawn, White)

\* C26: move_piece, the castles included, gives the move to the other side
\* and adds 1 to full_move_number exactly when Black moved; a successful
\* unmake_move gives the move back and takes 1 from full_move_number exactly
\* when a move of Black is undone; full_move_number is never below 1.
C26_TurnAndMoveNumber ==
    /\ board.full_move_number >= 1
    /\ last.op = "move_piece" =>
          /\ board.to_move = opposite_color(last.before.to_move)
          /\ board.full_move_number =
                last.before.full_move_number + (IF last.before.to_move = Black THEN 1 ELSE 0)
    /\ (last.op = "unmake_move" /\ last.ok) =>
          /\ board.to_move = opposite_color(last.before.to_move)
          /\ board.full_move_number =
                last.before.full_move_number - (IF board.to_move = Black THEN 1 ELSE 0)

\* Black has just castled
C26_Witness ==
    /\ last.op = "move_piece"
    /\ last.mv.flag \in {KingsideCastle, QueensideCastle}
    /\ last.before.to_move = Black
    /\ board.to_move = White
    /\ board.full_move_number = last.before.full_move_number + 1

\* C27: after any made and taken back generated moves, a square holds a
\* piece exactly when it holds a colour.
C27_SquaresAndColors ==
    \A i \in Squares : board.squares[i] = None <=> board.colors[i] = None

\* an en-passant capture or a capture with promotion was made as the second
\* move and taken back
C27_Witness ==
    /\ last.op = "unmake_move"
    /\ last.ok
    /\ last.mv.flag.tag \in {"EnPassantCapture", "CaptureWithPromotion"}
    /\ Len(made) = 1
    /\ board.squares[last.mv.starting_square] = Pawn
    /\ board.colors[last.mv.starting_square] = board.to_move

\* the square of the pawn an en-passant capture of `color` to `target` takes
taken_square(color, target) == IF color = White THEN target - 8 ELSE target + 8

\* C28: an EnPassantCapture puts the capturing pawn on the target square,
\* empties its origin and removes the enemy pawn from target - 8 when White
\* captures and from target + 8 when Black captures, no other square
\* changing; unmake_move puts that pawn back on the same square; played when
\* no en-passant square is set, the move aborts the program.
C28_EnPassantCapture ==
    LET mv == last.mv
        mover == last.before.to_move
        taken == taken_square(mover, mv.target_square)
    IN  /\ (last.op = "move_piece" /\ mv.flag = EnPassantCapture) =>
              IF last.before.board_state.en_passant_square = <<>>
              THEN last.state = "aborted"
              ELSE /\ last.ok
                   /\ is_piece_at_square(last.before, taken, Pawn, opposite_color(mover))
                   /\ is_piece_at_square(board, mv.target_square, Pawn, mover)
                   /\ is_square_empty(board, mv.starting_square)
                   /\ is_square_empty(board, taken)
                   /\ \A s \in Squares \ {mv.starting_square, mv.target_square, taken} :
                         /\ board.squares[s] = last.before.squares[s]
                         /\ board.colors[s] = last.before.colors[s]
        /\ (last.op = "unmake_move" /\ last.ok /\ mv.flag = EnPassantCapture) =>
              /\ is_piece_at_square(board, taken_square(board.to_move, mv.target_square),
                                    Pawn, opposite_color(board.to_move))
              /\ is_piece_at_square(board, mv.starting_square, Pawn, board.to_move)
              /\ is_square_empty(board, mv.target_square)
              /\ board.board_state.en_passant_square = <<mv.target_square>>

\* Black captured en passant and the capture was taken back
C28_Witness ==
    /\ last.op = "unmake_move"
    /\ last.ok
    /\ last.mv.flag = EnPassantCapture
    /\ board.to_move = Black
    /\ is_piece_at_square(board, last.mv.target_square + 8, Pawn, White)

\* the steps a piece can take from sq before it leaves the board, going
\* dr ranks and df files at a time
steps_to_edge(sq, dr, df) ==
    Cardinality({k \in 1..7 : /\ RankOf(sq) + k * dr \in 0..7
                              /\ FileOf(sq) + k * df \in 0..7})

\* the rank and file steps of the eight directions, in the order of
\* direction_offsets
direction_steps ==
    [i \in 0..7 |-> << <<1, 0>>, <<-1, 0>>, <<0, -1>>, <<0, 1>>,
                       <<1, -1>>, <<-1, 1>>, <<1, 1>>, <<-1, -1>> >>[i + 1]]

\* a generated move stays on the board and does not wrap around an edge;
\* a king step moves `king_files` files
stays_on_board(b, mv, king_files) ==
    LET from == mv.starting_square
        to == mv.target_square
        dr == Abs(RankOf(to) - RankOf(from))
        df == Abs(FileOf(to) - FileOf(from))
        piece == b.squares[from]
    IN  /\ to \in Squares
        /\ piece = Knight => <<dr, df>> \in {<<1, 2>>, <<2, 1>>}
        /\ (piece = King /\ mv.flag.tag \notin {"KingsideCastle", "QueensideCastle"}) =>
               df \in king_files /\ dr <= 1
        /\ (piece = Pawn /\ mv.flag.tag \in {"Capture", "CaptureWithPromotion",
                                              "EnPassantCapture"}) =>
               df = 1 /\ dr <= 1
        /\ piece \in {Rook, Bishop, Queen} =>
               /\ from # to
               /\ piece = Rook => (dr = 0 \/ df = 0)
               /\ piece = Bishop => dr = df
               /\ piece = Queen => (dr = 0 \/ df = 0 \/ dr = df)
               /\ \A m \in Between(from, to) : b.squares[m] = None

edges_exact ==
    \A sq \in Squares : \A dir \in 0..7 :
        num_squares_to_edge[sq][dir] =
            steps_to_edge(sq, direction_steps[dir][1], direction_steps[dir][2])

\* C29: no generated move leaves the board or wraps around an edge: every
\* target is in 0..63, every knight move is a (1,2) or (2,1) jump, every king
\* step and pawn capture moves exactly one file and at most one rank, every
\* sliding move runs along a rank, file or diagonal over empty squares, and
\* num_squares_to_edge is the number of steps to the edge.
C29_NoWrapAround ==
    last.op = "generate_pseudo_legal_moves" =>
        /\ edges_exact
        /\ \A i \in 1..Len(last.moves) : stays_on_board(last.before, last.moves[i], {1})

\* C29 with the king step moving at most one file and at most one rank
C29_NoWrapAroundKingStep ==
    last.op = "generate_pseudo_legal_moves" =>
        /\ edges_exact
        /\ \A i \in 1..Len(last.moves) :
              /\ stays_on_board(last.before, last.moves[i], {0, 1})
              /\ last.moves[i].starting_square # last.moves[i].target_square

\* the moves of a knight on the h-file and a step of the king along its
\* file were generated
C29_Witness ==
    /\ last.op = "generate_pseudo_legal_moves"
    /\ \E i \in 1..Len(last.moves) :
          /\ last.before.squares[last.moves[i].starting_square] = Knight
          /\ FileOf(last.moves[i].starting_square) = 7
    /\ \E i \in 1..Len(last.moves) :
          /\ last.before.squares[last.moves[i].starting_square] = King
          /\ FileOf(last.moves[i].starting_square) = FileOf(last.moves[i].target_square)

\* the moves the rules give the pawn of the side to move on s
pawn_moves_by_rule(b, s) ==
    LET color == b.to_move
        dir == IF color = White THEN 8 ELSE -8
        ahead == s + dir
        last_rank == RankOf(ahead) \in {0, 7}
        starting_rank == RankOf(s) = (IF color = White THEN 1 ELSE 6)
        promotions == {Queen, Rook, Bishop, Knight}
        diagonals == {d \in {ahead - 1, ahead + 1} : Abs(FileOf(d) - FileOf(s)) = 1}
        push == IF b.squares[ahead] # None THEN {}
                ELSE IF last_rank THEN {Move(s, ahead, PromoteTo(p)) : p \in promotions}
                ELSE {Move(s, ahead, NoFlag)}
        double_push ==
            IF starting_rank /\ b.squares[ahead] = None /\ b.squares[ahead + dir] = None
            THEN {Move(s, ahead + dir, PawnDoublePush)}
            ELSE {}
        diagonal(d) ==
            IF b.colors[d] = opposite_color(color)
            THEN IF last_rank
                 THEN {Move(s, d, CaptureWithPromotion(b.squares[d], p)) : p \in promotions}
                 ELSE {Move(s, d, Capture(b.squares[d]))}
            ELSE IF b.board_state.en_passant_square = <<d>>
                 THEN {Move(s, d, EnPassantCapture)}
            ELSE {}
    IN  push \cup double_push \cup UNION {diagonal(d) : d \in diagonals}

\* C30: the generated moves of a pawn of the side to move are the single
\* push when the square ahead is empty (four promotions on the last rank),
\* the double push from the starting rank when both squares ahead are
\* empty, and for each diagonal square the capture of the enemy piece on it
\* (four capture-promotions on the last rank) or the en-passant capture when
\* it is the en-passant square; each once and nothing else.
C30_PawnMoves ==
    last.op = "generate_pseudo_legal_moves" =>
        \A s \in Squares :
            is_piece_at_square(last.before, s, Pawn, last.before.to_move) =>
                LET generated == {i \in 1..Len(last.moves) : last.moves[i].starting_square = s}
                IN  /\ {last.moves[i] : i \in generated} = pawn_moves_by_rule(last.before, s)
                    /\ Cardinality(generated) = Cardinality(pawn_moves_by_rule(last.before, s))

\* a black pawn that cannot be pushed has an en-passant capture and a
\* capture
C30_Witness ==
    /\ last.op = "generate_pseudo_legal_moves"
    /\ last.before.to_move = Black
    /\ Len(last.moves) = 2
    /\ \E i \in 1..Len(last.moves) : last.moves[i].flag = EnPassantCapture
    /\ \E i \in 1..Len(last.moves) : last.moves[i].flag.tag = "Capture"

C31_FailHardWithMoves ==
    (/\ last.op \in {"search", "search_all_captures"}
     /\ (last.op = "search" => generate_moves(last.before).moves # <<>>)) =>
        /\ last.alpha <= last.value
        /\ last.value <= last.beta

\* the captures among the legal moves of b
capture_moves_of(gm) == SelectSeq(gm.moves, is_capture_flag)

\* the longest chain of captures search_all_captures can follow from b
RECURSIVE capture_depth(_)
RECURSIVE capture_depth_of(_, _)
capture_depth_of(b, capture_moves) ==
    IF capture_moves = <<>> THEN 0
    ELSE 1 + Max(capture_depth(move_piece(b, capture_moves[1])),
                 capture_depth_of(b, Tail(capture_moves)) - 1)

capture_depth(b) == capture_depth_of(b, capture_moves_of(generate_moves(b)))

\* C32: the moves search_all_captures recurses on each take one piece off
\* the board, so the chain of captures is no longer than the piece count;
\* find_best_move turns to the next depth until the depth asked for, and
\* once it has started its loops it returns.
C32_Termination ==
    /\ [](\A mv \in {capture_moves_of(generate_moves(board))[i] :
                        i \in 1..Len(capture_moves_of(generate_moves(board)))} :
             pieces_left(move_piece(board, mv)) = pieces_left(board) - 1)
    /\ [](capture_depth(board) <= pieces_left(board))
    /\ [](fbm.pc = "loop" => fbm.curr_depth < fbm.depth)
    /\ ((fbm.pc = "loop") ~> (fbm.pc = "done"))

\* find_best_move has returned from its loops, three deep, on a position
\* with a capture to follow
C32_Witness ==
    /\ fbm.pc = "done"
    /\ ~fbm.tablebase
    /\ fbm.depth = 3
    /\ capture_depth(board) >= 1

\* C33: try_from_fen answers every malformed string with an error that says
\* what is wrong: it never aborts and never returns a board.
C33_FenErrors ==
    last.op = "try_from_fen" =>
        /\ last.state # "aborted"
        /\ ~last.ok
        /\ last.err # ""

\* try_from_fen has aborted on a string with fewer than six fields whose
\* fields are all well formed
C33_Witness ==
    /\ last.op = "try_from_fen"
    /\ last.kind = "fields"
    /\ last.state = "aborted"
    /\ Len(split_whitespace(last.fen, 1, <<>>)) = 4

\* the malformed fields the code looks at give an error: a symbol that is
\* no piece, the side to move, the castling rights, the en passant square
\* and the clocks
C33_FenErrorsOfFields ==
    (last.op = "try_from_fen"
        /\ last.kind \in {"piece symbol", "side to move", "castling", "en passant", "clock"}) =>
        /\ last.state # "aborted"
        /\ ~last.ok
        /\ last.err # ""

\* the moves of a list
moves_of(gm) == {gm.moves[i] : i \in 1..Len(gm.moves)}

\* C34: the move find_best_move returns, from its search or from the
\* tablebase, is one of the moves generate_moves gives for the position it
\* was called on, and playing it leaves the king of the side that moved
\* out of check.
C34_BestMoveLegal ==
    fbm.pc = "done" =>
        /\ fbm.best_move \in moves_of(generate_moves(fbm.entry))
        /\ ~KingAttacked(move_piece(fbm.entry, fbm.best_move), fbm.entry.to_move)
        /\ ~is_in_check(move_piece(fbm.entry, fbm.best_move), fbm.entry.to_move)

\* find_best_move returned the move of the tablebase for a side that has
\* a move which would leave its king attacked
C34_Witness ==
    /\ fbm.pc = "done"
    /\ fbm.tablebase
    /\ \E mv \in moves_of([moves |-> generate_pseudo_legal_moves(fbm.entry)]) :
          KingAttacked(move_piece(fbm.entry, mv), fbm.entry.to_move)

\* the value of a root move in the iteration that searches depth plies
\* below the root
root_move_value(b, mv, depth) == -negamax(move_piece(b, mv), depth)

\* C35: when find_best_move returns from its search, the score is the value
\* the returned move has in the last iteration, which searches depth - 1
\* plies below the root, and no root move has a greater value there.
C35_FinalIteration ==
    (fbm.pc = "done" /\ ~fbm.tablebase) =>
        /\ fbm.best_eval = root_move_value(fbm.entry, fbm.best_move, fbm.depth - 1)
        /\ \A mv \in moves_of(fbm) :
              root_move_value(fbm.entry, mv, fbm.depth - 1)
                  <= root_move_value(fbm.entry, fbm.best_move, fbm.depth - 1)

\* find_best_move returned, three deep, a score its move does not have in
\* the last iteration, where every root move loses
C35_Witness ==
    /\ fbm.pc = "done"
    /\ ~fbm.tablebase
    /\ fbm.depth = 3
    /\ \A mv \in moves_of(fbm) : root_move_value(fbm.entry, mv, 2) = -INF
    /\ fbm.best_eval # -INF

\* the returned move is among the best of the last iteration, and where
\* some root move does not lose in the last iteration the score is the
\* value of the returned move
C35_FinalIterationNotLost ==
    (fbm.pc = "done" /\ ~fbm.tablebase) =>
        /\ \A mv \in moves_of(fbm) :
              root_move_value(fbm.entry, mv, fbm.depth - 1)
                  <= root_move_value(fbm.entry, fbm.best_move, fbm.depth - 1)
        /\ (\E mv \in moves_of(fbm) : root_move_value(fbm.entry, mv, fbm.depth - 1) # -INF)
              => fbm.best_eval = root_move_value(fbm.entry, fbm.best_move, fbm.depth - 1)

\* a score that has a negative in an i32
in_range(eval) == -INF <= eval /\ eval <= INF

\* C36: the values evaluate, search and search_all_captures return, and the
\* alpha and beta of every call, lie between -INF and +INF, so the least
\* i32 does not come up and every negation is exact.
C36_ScoresInRange ==
    last.op \in {"search", "search_all_captures"} =>
        /\ in_range(last.value)
        /\ \A call \in search_calls(last.before, last.depth, last.alpha, last.beta) :
              /\ in_range(call.alpha)
              /\ in_range(call.beta)
              /\ in_range(call.eval)
              /\ neg(neg(call.eval)) = call.eval

\* search returned +INF two deep with the window from -INF to +INF, a call
\* below it having returned -INF, the mate score, which was negated
C36_Witness ==
    /\ last.op = "search"
    /\ last.depth = 2
    /\ last.alpha = -INF /\ last.beta = INF
    /\ last.value = INF
    /\ \E call \in search_calls(last.before, last.depth, last.alpha, last.beta) :
          call.alpha = -INF /\ call.eval = -INF

\* C37: every position the generated moves lead to has one White king and
\* one Black king, so is_in_check finds the king it looks for, and no
\* generated move that is played takes a king.
C37_KingsStay ==
    /\ OneKingEach(board)
    /\ \A c \in {White, Black} : ~is_in_check_aborts(board, c)
    /\ last.op = "move_piece" => last.mv.flag.captured # King

\* two generated moves were played, the second a capture that gives check
C37_Witness ==
    /\ last.op = "move_piece"
    /\ Len(made) = 2
    /\ last.mv.flag.tag = "Capture"
    /\ is_in_check(board, board.to_move)
    /\ KingAttacked(board, board.to_move)

\* C38: try_from_uci, given what a generated move of the position is
\* written as, returns that move, flag included.
C38_UciRoundTrip ==
    last.op = "try_from_uci" =>
        \A mv \in moves_of(generate_moves(last.before)) :
            to_uci(mv) = last.uci =>
                /\ last.state # "aborted"
                /\ last.ok
                /\ last.mv = mv

\* try_from_uci was given the five characters of a generated promotion to
\* a knight that takes a piece
C38_Witness ==
    /\ last.op = "try_from_uci"
    /\ last.ok
    /\ Len(last.uci) = 5
    /\ last.mv.flag.tag = "CaptureWithPromotion"
    /\ last.mv.flag.promotion = Knight
    /\ to_uci(last.mv) = last.uci

\* the squares a move may change: where it starts and where it ends, the
\* square beside the start on the file of the target for an en passant
\* capture, the corner and the square the king passed for a castle
frame_squares(mv) ==
    {mv.starting_square, mv.target_square}
      \cup (CASE mv.flag.tag = "EnPassantCapture" ->
                    {(mv.starting_square \div 8) * 8 + (mv.target_square % 8)}
              [] mv.flag.tag = "KingsideCastle" ->
                    {mv.target_square + 1, mv.target_square - 1}
              [] mv.flag.tag = "QueensideCastle" ->
                    {mv.target_square - 2, mv.target_square + 1}
              [] OTHER -> {})

\* the squares whose piece or colour differs between two boards
changed_squares(b, after) ==
    {s \in Squares : b.squares[s] # after.squares[s] \/ b.colors[s] # after.colors[s]}

\* C39: move_piece changes no square but the start and the target of the
\* move, the square of the pawn an en passant capture takes and the two
\* rook squares of a castle; it takes one piece off the board for a
\* Capture, an EnPassantCapture or a CaptureWithPromotion and none
\* otherwise.
C39_MovePieceFrame ==
    last.op = "move_piece" =>
        /\ changed_squares(last.before, board) \subseteq frame_squares(last.mv)
        /\ pieces_left(board) =
              pieces_left(last.before)
                - (IF last.mv.flag.tag \in {"Capture", "EnPassantCapture", "CaptureWithPromotion"}
                   THEN 1 ELSE 0)

\* a queenside castle was played: four squares changed and no piece left
\* the board
C39_Witness ==
    /\ last.op = "move_piece"
    /\ last.mv.flag.tag = "QueensideCastle"
    /\ Cardinality(changed_squares(last.before, board)) = 4
    /\ pieces_left(board) = pieces_left(last.before)

\* the four castling rights of a board, by colour and side
castling_right(b, color, side) ==
    CASE color = White /\ side = "king" -> b.board_state.white_kingside_castling_priviledge
      [] color = White /\ side = "queen" -> b.board_state.white_queenside_castling_priviledge
      [] color = Black /\ side = "king" -> b.board_state.black_kingside_castling_priviledge
      [] color = Black /\ side = "queen" -> b.board_state.black_queenside_castling_priviledge

\* the right a setter is named after
setter_side(op) == IF op = "can_king_side_castle" THEN "king" ELSE "queen"

\* C40: can_king_side_castle(color, castle) makes the king-side right of
\* color be castle, can_queen_side_castle(color, castle) the queen-side
\* right of color, and each leaves the three other rights as they were.
C40_SettersActOnColour ==
    last.op \in {"can_king_side_castle", "can_queen_side_castle"} =>
        \A c \in {White, Black} : \A side \in {"king", "queen"} :
            castling_right(board, c, side) =
                IF c = last.color /\ side = setter_side(last.op)
                THEN last.castle
                ELSE castling_right(last.before, c, side)

\* can_king_side_castle(White, false) was called on a board where both
\* colours held the king-side right: White still holds it, Black lost it
C40_Witness ==
    /\ last.op = "can_king_side_castle"
    /\ last.color = White
    /\ ~last.castle
    /\ castling_right(last.before, White, "king")
    /\ castling_right(last.before, Black, "king")
    /\ castling_right(board, White, "king")
    /\ ~castling_right(board, Black, "king")

\* each setter changes at most the right of its side of the board, and
\* nothing else of the board
C40_SettersKeepSide ==
    last.op \in {"can_king_side_castle", "can_queen_side_castle"} =>
        /\ \A c \in {White, Black} : \A side \in {"king", "queen"} :
              side # setter_side(last.op) =>
                  castling_right(board, c, side) = castling_right(last.before, c, side)
        /\ board.squares = last.before.squares
        /\ board.colors = last.before.colors
        /\ board.to_move = last.before.to_move

====
